---- MODULE Spec2Model ----
(***************************************************************************)
(* A model of the command engine of SuperConductor's IPCServer             *)
(* (src/apps/app/src/electron/IPCServer.ts): the undo/redo ledger kept by  *)
(* the ipcMain.handle wrapper, and the rundown commands (play, pause,      *)
(* stop, the structural edits and their undo functions).                   *)
(*                                                                         *)
(* Optional values (TypeScript `x?: T`, `T | undefined`, `number | null`)  *)
(* are sequences of length 0 or 1: None is <<>> and Some(x) is <<x>>.      *)
(***************************************************************************)
EXTENDS Integers, Sequences, FiniteSets, TLC

VARIABLES
    undoLedger,   \* IPCServer.undoLedger: the sequence of Action entries
    undoPointer,  \* IPCServer.undoPointer: index (0-based, -1 = none) of the current entry
    execCount,    \* number of command executions started so far (names invocations and undo closures)
    pending,      \* IPC handlers suspended at an await on storage I/O
    lastCall,     \* observation: what the last finished handler / undo() / redo() did
    interleaved,  \* observation: a handler mutated state while another one was suspended between its two mutation phases
    groups,       \* rundown.groups of the open rundown
    now,          \* Date.now()
    before,       \* observation: rundown.groups when the last command was invoked, what it
                  \* staged, and the play-and-pause run it belongs to
    materialized, \* getTimelineForGroup: the group and prepared play data of a call, and what it returned
    session,      \* SessionHandler: its maps, change flags and emit timer, and the events emitted
    project       \* addResourcesToTimeline: project.mappings and the timeline of the part worked on

\* The timeline materializer, the session handler and the project of the layer
\* assignment are apart from the command engine.
apartVars == <<materialized, session, project>>

rundownVars == <<groups, now, before, materialized, session, project>>

vars == <<undoLedger, undoPointer, execCount, pending, lastCall, interleaved, groups, now, before,
          materialized, session, project>>

None == <<>>
Some(x) == <<x>>

----------------------------------------------------------------------------
(* Bounds of the model.                                                    *)

\* MAX_UNDO_LEDGER_LENGTH is imported from ../ipc/IPCAPI (IPCServer.ts:37); the
\* model runs with a small ledger so that eviction happens within MaxExec executions.
MAX_UNDO_LEDGER_LENGTH == 2

\* Executions (IPC invocations and redo() re-executions) per behaviour.
MaxExec == 4

\* Suspended handlers at a time.
MaxPending == 1

----------------------------------------------------------------------------
(* Results of IPC methods, as far as isUndoable looks at them.             *)

Undefined == [type |-> "undefined", undoIsFunction |-> FALSE, descriptionIsString |-> FALSE]
PlainValue == [type |-> "object", undoIsFunction |-> FALSE, descriptionIsString |-> FALSE]
UndoableResult == [type |-> "object", undoIsFunction |-> TRUE, descriptionIsString |-> TRUE]

isUndoableAnyObject(result) == result.type = "object"

isUndoable(result) ==
    /\ result.type = "object"
    /\ result.undoIsFunction
    /\ result.descriptionIsString

\* The IPC methods of the ledger model and what each can return. The rundown is
\* abstracted here: whether the target is locked or missing is a free choice.
SyncMethods == {"newGroup", "updatePart", "playPart", "getRundowns"}

Returns(method) ==
    CASE method = "newGroup" -> {UndoableResult}
      [] method = "updatePart" -> {UndoableResult, Undefined}
      [] method = "playPart" -> {Undefined}
      [] method = "getRundowns" -> {PlainValue}
      [] method = "closeRundown" -> {UndoableResult}

Arguments == {"a1", "a2"}

\* No play-and-pause run of a part is under way.
NoRun == [partId |-> 0, played |-> None, paused |-> None]

\* Nothing has been observed of a rundown command yet.
NoFlush == [called |-> FALSE, inRundown |-> FALSE, partIds |-> {}, playingParts |-> <<>>]

NoObservation == [groups |-> <<>>, staged |-> <<>>, run |-> NoRun, flushed |-> NoFlush]

\* The parts of the program that a behaviour of the command engine does not run.
Apart == materialized = None /\ session = None /\ project = None

\* What a finished step did: the operation, the IPC method and arguments, what the
\* method returned (`result`) or that it threw, whether the caller saw the error,
\* and which stored undo / redo function was invoked.
NoCall == [op |-> "none", method |-> "none", arguments |-> None, outcome |-> "none",
           result |-> Undefined, rethrown |-> FALSE, calledUndo |-> None, calledRedo |-> None,
           evicted |-> 0]

Init ==
    /\ undoLedger = <<>>
    /\ undoPointer = -1
    /\ execCount = 0
    /\ pending = {}
    /\ lastCall = NoCall
    /\ interleaved = FALSE
    /\ groups = <<>>
    /\ now = 0
    /\ before = NoObservation
    /\ Apart

----------------------------------------------------------------------------
(* The ledger bookkeeping of the ipcMain.handle wrapper.                    *)

\* this.undoLedger.splice(this.undoPointer + 1, this.undoLedger.length)
ClearFutureKeepsAll(ledger, pointer) == ledger

ClearFuture(ledger, pointer) ==
    IF pointer + 1 >= Len(ledger) THEN ledger ELSE SubSeq(ledger, 1, pointer + 1)

\* if (length > MAX_UNDO_LEDGER_LENGTH) this.undoLedger.splice(0, length - MAX_UNDO_LEDGER_LENGTH)
EvictNewest(ledger) ==
    IF Len(ledger) > MAX_UNDO_LEDGER_LENGTH
    THEN SubSeq(ledger, 1, MAX_UNDO_LEDGER_LENGTH)
    ELSE ledger

EvictOldest(ledger) ==
    IF Len(ledger) > MAX_UNDO_LEDGER_LENGTH
    THEN SubSeq(ledger, Len(ledger) - MAX_UNDO_LEDGER_LENGTH + 1, Len(ledger))
    ELSE ledger

\* The entry pushed for an undoable result: description, arguments, undo, redo (the
\* bound method, named by `description`). `seq` is the number of the invocation
\* that created the entry and `undo` names the execution whose undo closure it holds.
Action(method, args, seq, undoOf) ==
    [description |-> method, arguments |-> args, undo |-> undoOf, seq |-> seq]

\* Lines 150-162: what the wrapper does with the ledger for an undoable result.
PushAction(ledger, pointer, entry) ==
    EvictOldest(Append(ClearFuture(ledger, pointer), entry))

\* this.undoPointer = this.undoLedger.length - 1
LastIndex(ledger) == Len(ledger) - 1

\* this.undoLedger[i] (0-based; undefined outside the array)
EntryAt(ledger, i) ==
    IF i >= 0 /\ i < Len(ledger) THEN Some(ledger[i + 1]) ELSE None

\* Whether an execution changes the rundown / storage.
Mutates(method, result) ==
    \/ method \in {"newGroup", "closeRundown"}
    \/ method = "updatePart" /\ result = UndoableResult
    \/ method = "playPart"

\* A suspended handler has run its first mutation phase and has one to go.
MidMutation == pending # {}

\* ipcMain.handle wrapper, lines 146-170, for a method that finishes without
\* waiting for I/O and returns.
HandlerReturns(method, args, result, undo) ==
    LET seq == execCount + 1 IN
    /\ execCount' = seq
    /\ IF isUndoable(result)
       THEN /\ undoLedger' = PushAction(undoLedger, undoPointer, Action(method, args, seq, undo))
            /\ undoPointer' = LastIndex(undoLedger')
       ELSE UNCHANGED <<undoLedger, undoPointer>>
    /\ lastCall' = [NoCall EXCEPT !.op = "handler", !.method = method, !.arguments = Some(args),
                       !.outcome = "returned", !.result = result,
                       !.evicted = IF isUndoable(result)
                                   THEN Len(ClearFuture(undoLedger, undoPointer)) + 1 - Len(undoLedger')
                                   ELSE 0]
    /\ interleaved' = (interleaved \/ (MidMutation /\ Mutates(method, result)))
    /\ UNCHANGED pending

\* ipcMain.handle wrapper, lines 171-177: the method throws, the error is
\* reported and re-thrown.
HandlerThrows(method, args) ==
    /\ execCount' = execCount + 1
    /\ lastCall' = [NoCall EXCEPT !.op = "handler", !.method = method, !.arguments = Some(args),
                       !.outcome = "threw", !.rethrown = TRUE]
    /\ UNCHANGED <<undoLedger, undoPointer, pending, interleaved>>

Handle ==
    /\ UNCHANGED rundownVars
    /\ execCount < MaxExec
    /\ \E method \in SyncMethods, args \in Arguments :
          \/ \E result \in Returns(method) : HandlerReturns(method, args, result, execCount + 1)
          \/ HandlerThrows(method, args)

\* closeRundown, lines 2063-2074: stops every group, then awaits storage.closeRundown.
\* The handler is suspended there and other IPC messages are handled meanwhile.
CloseRundownStart ==
    /\ UNCHANGED rundownVars
    /\ execCount < MaxExec
    /\ Cardinality(pending) < MaxPending
    /\ \E args \in Arguments :
          /\ pending' = pending \cup {[op |-> "handler", method |-> "closeRundown",
                                        arguments |-> args, seq |-> execCount + 1, entry |-> None]}
          /\ execCount' = execCount + 1
          /\ lastCall' = [NoCall EXCEPT !.op = "handler", !.method = "closeRundown",
                             !.arguments = Some(args), !.outcome = "suspended"]
          /\ interleaved' = (interleaved \/ MidMutation)
          /\ UNCHANGED <<undoLedger, undoPointer>>

\* closeRundown, lines 2075-2083, and the wrapper's lines 150-167 after it.
CloseRundownFinish ==
    \E h \in pending :
        /\ UNCHANGED rundownVars
        /\ h.op = "handler"
        /\ pending' = pending \ {h}
        /\ UNCHANGED execCount
        /\ \/ /\ undoLedger' = PushAction(undoLedger, undoPointer,
                                   Action(h.method, h.arguments, h.seq, h.seq))
              /\ undoPointer' = LastIndex(undoLedger')
              /\ lastCall' = [NoCall EXCEPT !.op = "handler", !.method = h.method,
                                 !.arguments = Some(h.arguments), !.outcome = "returned",
                                 !.result = UndoableResult,
                                 !.evicted = Len(ClearFuture(undoLedger, undoPointer)) + 1
                                                - Len(undoLedger')]
              /\ interleaved' = (interleaved \/ (pending' # {}))
           \/ \* storage.closeRundown rejects
              /\ lastCall' = [NoCall EXCEPT !.op = "handler", !.method = h.method,
                                 !.arguments = Some(h.arguments), !.outcome = "threw",
                                 !.rethrown = TRUE]
              /\ UNCHANGED <<undoLedger, undoPointer, interleaved>>

\* The catch blocks of undo() and redo(), lines 235-241 and 250-256.
ClearLedgerKeepsEntries(ledger) == ledger

ClearLedger(ledger) == SubSeq(ledger, 1, 0)

\* this.undoPointer-- (line 234)
AfterUndoStays(pointer) == pointer

AfterUndo(pointer) == pointer - 1

\* this.undoPointer++ (line 249)
AfterRedo(pointer) == pointer + 1

\* action.undo = redoResult.undo (line 248): `action` is the entry object read at
\* line 245; it is updated where it still sits in the ledger.
SetUndo(ledger, seq, undoOf) ==
    [i \in 1..Len(ledger) |->
        IF ledger[i].seq = seq THEN [ledger[i] EXCEPT !.undo = undoOf] ELSE ledger[i]]

\* undo(), lines 230-243. Reading action.undo of a missing entry is a TypeError
\* inside the try block, which the catch block handles like a throwing inverse.
Undo ==
    LET action == EntryAt(undoLedger, undoPointer) IN
    /\ UNCHANGED rundownVars
    /\ UNCHANGED <<execCount, pending>>
    /\ \/ /\ action # None
          /\ undoPointer' = AfterUndo(undoPointer)
          /\ lastCall' = [NoCall EXCEPT !.op = "undo", !.method = action[1].description,
                             !.outcome = "returned", !.calledUndo = Some(action[1].undo)]
          /\ interleaved' = (interleaved \/ MidMutation)
          /\ UNCHANGED undoLedger
       \/ /\ undoLedger' = ClearLedger(undoLedger)
          /\ undoPointer' = -1
          /\ lastCall' = [NoCall EXCEPT !.op = "undo", !.outcome = "threw",
                             !.method = IF action = None THEN "none" ELSE action[1].description,
                             !.calledUndo = IF action = None THEN None ELSE Some(action[1].undo)]
          /\ UNCHANGED interleaved

\* redo(), lines 244-258, for an entry whose method finishes without waiting for
\* I/O. A missing entry, a throwing method and a method that returns undefined
\* (reading redoResult.undo) all end in the catch block.
Redo ==
    LET action == EntryAt(undoLedger, undoPointer + 1) IN
    /\ UNCHANGED rundownVars
    /\ UNCHANGED pending
    /\ \/ /\ action # None
          /\ action[1].description \in SyncMethods
          /\ execCount < MaxExec
          /\ execCount' = execCount + 1
          /\ \/ /\ UndoableResult \in Returns(action[1].description)
                /\ undoLedger' = SetUndo(undoLedger, action[1].seq, execCount + 1)
                /\ undoPointer' = AfterRedo(undoPointer)
                /\ lastCall' = [NoCall EXCEPT !.op = "redo", !.method = action[1].description,
                                   !.outcome = "returned", !.result = UndoableResult,
                                   !.calledRedo = Some(<<action[1].description, action[1].arguments>>)]
                /\ interleaved' = (interleaved \/ MidMutation)
             \/ /\ undoLedger' = ClearLedger(undoLedger)
                /\ undoPointer' = -1
                /\ lastCall' = [NoCall EXCEPT !.op = "redo", !.method = action[1].description,
                                   !.outcome = "threw",
                                   !.calledRedo = Some(<<action[1].description, action[1].arguments>>)]
                /\ UNCHANGED interleaved
       \/ /\ action = None
          /\ undoLedger' = ClearLedger(undoLedger)
          /\ undoPointer' = -1
          /\ lastCall' = [NoCall EXCEPT !.op = "redo", !.outcome = "threw"]
          /\ UNCHANGED <<execCount, interleaved>>

\* redo() of a closeRundown entry: the re-invoked method is suspended at its
\* await on storage (line 2074), and redo() at line 247 with it.
RedoStart ==
    LET action == EntryAt(undoLedger, undoPointer + 1) IN
    /\ UNCHANGED rundownVars
    /\ action # None
    /\ action[1].description = "closeRundown"
    /\ execCount < MaxExec
    /\ Cardinality(pending) < MaxPending
    /\ execCount' = execCount + 1
    /\ pending' = pending \cup {[op |-> "redo", method |-> action[1].description,
                                  arguments |-> action[1].arguments, seq |-> execCount + 1,
                                  entry |-> Some(action[1].seq)]}
    /\ lastCall' = [NoCall EXCEPT !.op = "redo", !.method = action[1].description,
                       !.outcome = "suspended",
                       !.calledRedo = Some(<<action[1].description, action[1].arguments>>)]
    /\ interleaved' = (interleaved \/ MidMutation)
    /\ UNCHANGED <<undoLedger, undoPointer>>

\* lines 248-257 once the re-invoked closeRundown has settled.
RedoFinish ==
    \E h \in pending :
        /\ UNCHANGED rundownVars
        /\ h.op = "redo"
        /\ pending' = pending \ {h}
        /\ UNCHANGED execCount
        /\ \/ /\ undoLedger' = SetUndo(undoLedger, h.entry[1], h.seq)
              /\ undoPointer' = AfterRedo(undoPointer)
              /\ lastCall' = [NoCall EXCEPT !.op = "redo", !.method = h.method,
                                 !.outcome = "resumed", !.result = UndoableResult,
                                 !.calledRedo = Some(<<h.method, h.arguments>>)]
              /\ interleaved' = (interleaved \/ (pending' # {}))
           \/ /\ undoLedger' = ClearLedger(undoLedger)
              /\ undoPointer' = -1
              /\ lastCall' = [NoCall EXCEPT !.op = "redo", !.method = h.method,
                                 !.outcome = "threw",
                                 !.calledRedo = Some(<<h.method, h.arguments>>)]
              /\ UNCHANGED interleaved

Next ==
    \/ Handle
    \/ CloseRundownStart
    \/ CloseRundownFinish
    \/ Undo
    \/ Redo
    \/ RedoStart
    \/ RedoFinish

Spec == Init /\ [][Next]_vars

----------------------------------------------------------------------------
(* Claims about the ledger.                                                 *)

\* The step just taken was an IPC handler finishing with an undoable result.
ReturnedUndoable ==
    /\ lastCall'.op = "handler"
    /\ lastCall'.outcome = "returned"
    /\ lastCall'.result = UndoableResult

\* The entries at 0-based indexes 0..pointer (all of them when there are fewer).
UpToPointer ==
    [i \in 1..(IF undoPointer + 1 < Len(undoLedger) THEN undoPointer + 1 ELSE Len(undoLedger))
        |-> undoLedger[i]]

\* C1: when a command invoked through the IPC handler returns an undoable result,
\* every entry after the pointer is discarded, the new entry (description,
\* original arguments, the undo of this execution) is appended at the end and the
\* pointer is the index of that last entry.
C1_AppendStep ==
    ReturnedUndoable =>
        LET n == Len(undoLedger') IN
        /\ n >= 1
        /\ undoPointer' = n - 1
        /\ undoLedger'[n].description = lastCall'.method
        /\ Some(undoLedger'[n].arguments) = lastCall'.arguments
        /\ undoLedger'[n].undo = undoLedger'[n].seq
        /\ \A i \in 1..Len(undoLedger) : undoLedger'[n].seq # undoLedger[i].seq
        \* what precedes the new entry is a tail of the entries up to the pointer
        /\ n - 1 <= Len(UpToPointer)
        /\ \A i \in 1..(n - 1) : undoLedger'[i] = UpToPointer[Len(UpToPointer) - (n - 1) + i]

C1_UndoableResultAppended == [][C1_AppendStep]_vars

\* C1 witness: an undoable command has just been recorded after an undo, so that a
\* redo entry had to be discarded.
C1_Witness ==
    /\ lastCall.op = "handler"
    /\ lastCall.result = UndoableResult
    /\ Len(undoLedger) = 2
    /\ undoLedger[2].seq > undoLedger[1].seq + 1
    /\ undoPointer = 1

\* C2: the ledger never holds more than MAX_UNDO_LEDGER_LENGTH entries; an append
\* that would exceed it leaves exactly the most recent MAX_UNDO_LEDGER_LENGTH
\* entries, in order, with the pointer at the newest.
C2_EvictStep ==
    (ReturnedUndoable /\ Len(UpToPointer) + 1 > MAX_UNDO_LEDGER_LENGTH) =>
        LET full == Append(UpToPointer, undoLedger'[Len(undoLedger')]) IN
        /\ Len(undoLedger') = MAX_UNDO_LEDGER_LENGTH
        /\ \A i \in 1..MAX_UNDO_LEDGER_LENGTH :
              undoLedger'[i] = full[Len(full) - MAX_UNDO_LEDGER_LENGTH + i]
        /\ undoPointer' = MAX_UNDO_LEDGER_LENGTH - 1

C2_LedgerBound ==
    /\ [](Len(undoLedger) <= MAX_UNDO_LEDGER_LENGTH)
    /\ [][C2_EvictStep]_vars

\* C2 witness: an append has evicted the oldest entry.
C2_Witness ==
    /\ lastCall.op = "handler"
    /\ lastCall.evicted = 1
    /\ Len(undoLedger) = MAX_UNDO_LEDGER_LENGTH
    /\ undoPointer = MAX_UNDO_LEDGER_LENGTH - 1

\* Same entries in the same order, whatever undo closure each holds.
SameEntries(a, b) ==
    /\ Len(a) = Len(b)
    /\ \A i \in 1..Len(a) : [a[i] EXCEPT !.undo = 0] = [b[i] EXCEPT !.undo = 0]

\* C3: a successful undo() invokes the undo of the entry at the pointer and
\* decrements the pointer; a successful redo() invokes the method of the entry at
\* pointer+1 with its stored arguments, stores the undo returned by that call in
\* the entry and increments the pointer; neither changes the number or the order
\* of the entries.
C3_UndoStep ==
    (lastCall'.op = "undo" /\ lastCall'.outcome = "returned") =>
        /\ undoPointer >= 0 /\ undoPointer < Len(undoLedger)
        /\ lastCall'.calledUndo = Some(undoLedger[undoPointer + 1].undo)
        /\ undoPointer' = undoPointer - 1
        /\ undoLedger' = undoLedger

C3_RedoStep ==
    /\ (lastCall'.op = "redo" /\ lastCall'.outcome \in {"returned", "suspended"}) =>
          /\ undoPointer + 1 >= 0 /\ undoPointer + 1 < Len(undoLedger)
          /\ lastCall'.calledRedo = Some(<<undoLedger[undoPointer + 2].description,
                                           undoLedger[undoPointer + 2].arguments>>)
    /\ (lastCall'.op = "redo" /\ lastCall'.outcome = "returned") =>
          /\ undoLedger'[undoPointer + 2].undo = execCount'
          /\ undoLedger'[undoPointer + 2].undo # undoLedger[undoPointer + 2].undo
    /\ (lastCall'.op = "redo" /\ lastCall'.outcome \in {"returned", "resumed"}) =>
          /\ undoPointer' = undoPointer + 1
          /\ SameEntries(undoLedger', undoLedger)
    /\ (lastCall'.op = "redo" /\ lastCall'.outcome = "resumed") =>
          \A h \in pending \ pending' : \A i \in 1..Len(undoLedger) :
              /\ undoLedger[i].seq = h.entry[1] => undoLedger'[i].undo = h.seq
              /\ undoLedger[i].seq # h.entry[1] => undoLedger'[i] = undoLedger[i]

C3_UndoRedoMovePointer == [][C3_UndoStep /\ C3_RedoStep]_vars

\* C3 witness: an entry has been undone and redone; it holds a newer undo closure.
C3_Witness ==
    /\ lastCall.op = "redo"
    /\ lastCall.outcome = "returned"
    /\ undoPointer >= 0 /\ undoPointer < Len(undoLedger)
    /\ undoLedger[undoPointer + 1].undo > undoLedger[undoPointer + 1].seq

\* C4: when the inverse invoked by undo() or the method invoked by redo() throws,
\* the caller sees no exception, the ledger is emptied and the pointer is -1.
C4_FailStep ==
    (lastCall'.op \in {"undo", "redo"} /\ lastCall'.outcome = "threw") =>
        /\ ~lastCall'.rethrown
        /\ undoLedger' = <<>>
        /\ undoPointer' = -1

C4_FailureClearsLedger == [][C4_FailStep]_vars

\* C4 witness: a stored inverse has thrown.
C4_Witness ==
    /\ lastCall.op = "undo"
    /\ lastCall.outcome = "threw"
    /\ lastCall.calledUndo # None
    /\ undoLedger = <<>>

\* C5: a command that returns undefined or another non-undoable value, or that
\* throws, leaves the entries and the pointer as they were; a thrown error reaches
\* the caller.
C5_NoRecordStep ==
    /\ (/\ lastCall'.op = "handler"
        /\ lastCall'.outcome = "returned"
        /\ lastCall'.result # UndoableResult) =>
            (undoLedger' = undoLedger /\ undoPointer' = undoPointer)
    /\ (lastCall'.op = "handler" /\ lastCall'.outcome = "threw") =>
            (undoLedger' = undoLedger /\ undoPointer' = undoPointer /\ lastCall'.rethrown)

C5_OnlyUndoableRecorded == [][C5_NoRecordStep]_vars

\* C5 witness: a command returned a non-undoable object while the ledger held
\* entries, some of them undone.
C5_Witness ==
    /\ lastCall.op = "handler"
    /\ lastCall.result = PlainValue
    /\ Len(undoLedger) = 2
    /\ undoPointer = 0

\* C6: commands are serialized in arrival order: no command mutates state while
\* another one is suspended between its mutation phases, and the ledger holds the
\* entries in the order in which their commands were invoked.
C6_Serialized ==
    /\ ~interleaved
    /\ \A i, j \in 1..Len(undoLedger) : i < j => undoLedger[i].seq < undoLedger[j].seq

----------------------------------------------------------------------------
(* The rundown: groups, parts and playout.                                  *)
(*                                                                         *)
(* A Part is [id, disabled, locked, loop, duration]; duration is the       *)
(* resolved duration, None when the part never ends by itself.             *)
(* A Group is [id, transparent, oneAtATime, loop, autoPlay, disabled,      *)
(* locked, parts, playingParts, preparedPlayData]. playingParts is the     *)
(* object group.playout.playingParts, kept as the sequence of its entries  *)
(* in key (insertion) order, each with its key partId.                     *)

PlayingPart(partId, startTime, pauseTime, stopTime, fromSchedule) ==
    [partId |-> partId, startTime |-> startTime, pauseTime |-> pauseTime,
     stopTime |-> stopTime, fromSchedule |-> fromSchedule]

\* Object.keys(playingParts)
Keys(playingParts) == {playingParts[i].partId : i \in 1..Len(playingParts)}

KeyIndex(playingParts, partId) ==
    IF \E i \in 1..Len(playingParts) : playingParts[i].partId = partId
    THEN CHOOSE i \in 1..Len(playingParts) : playingParts[i].partId = partId
    ELSE 0

\* playingParts[partId] = entry: an existing key keeps its place, a new one goes last
SetEntry(playingParts, entry) ==
    IF KeyIndex(playingParts, entry.partId) = 0
    THEN Append(playingParts, entry)
    ELSE [playingParts EXCEPT ![KeyIndex(playingParts, entry.partId)] = entry]

\* findPart / getPart: the index of the part in group.parts, 0 when missing
PartIndex(group, partId) ==
    IF \E i \in 1..Len(group.parts) : group.parts[i].id = partId
    THEN CHOOSE i \in 1..Len(group.parts) : group.parts[i].id = partId
    ELSE 0

\* findGroup / getGroup: the index of the group in rundown.groups, 0 when missing
GroupIndex(gs, groupId) ==
    IF \E i \in 1..Len(gs) : gs[i].id = groupId
    THEN CHOOSE i \in 1..Len(gs) : gs[i].id = groupId
    ELSE 0

----------------------------------------------------------------------------
(* Timeline Preparer and Playhead Resolver. updateTimeline,                *)
(* getGroupPlayData and updateGroupPlayingParts are imported by            *)
(* IPCServer.ts from lib/playhead, lib/util and the callbacks object; they *)
(* are modelled from sections 4.1 and 4.2 of the specification.            *)

RECURSIVE SumDurations(_)
SumDurations(ps) ==
    IF ps = <<>> THEN 0 ELSE ps[1].duration[1] + SumDurations(Tail(ps))

\* A part after which nothing is queued: it never ends, or it loops by itself.
Blocking(part) == part.duration = None \/ part.loop

\* The parts played from index i on under autoPlay: the enabled parts in rundown
\* order, up to and including the first blocking one.
RECURSIVE Chain(_, _)
Chain(parts, i) ==
    IF i > Len(parts) THEN <<>>
    ELSE IF parts[i].disabled THEN Chain(parts, i + 1)
    ELSE IF Blocking(parts[i]) THEN <<parts[i]>>
    ELSE <<parts[i]>> \o Chain(parts, i + 1)

Blocked(ps) == ps # <<>> /\ Blocking(ps[Len(ps)])

\* The parts of a section that starts with the part at index i.
SectionParts(group, i) ==
    IF ~group.autoPlay \/ Blocking(group.parts[i]) THEN <<group.parts[i]>>
    ELSE LET tail == Chain(group.parts, i) IN
         IF group.loop /\ ~Blocked(tail)
         THEN tail \o Chain(SubSeq(group.parts, 1, i - 1), 1)
         ELSE tail

\* One section: {startTime, endTime?, pauseTime?, stopTime?, repeating, duration,
\* parts: [{part, startTime, duration}]}. A stopped section ends at its stopTime,
\* a paused one holds its first part, an open-ended or repeating one has no endTime.
Section(entry, ps, wraps) ==
    LET paused == entry.pauseTime # None
        played == IF paused THEN <<ps[1]>> ELSE ps
        total == IF \A k \in 1..Len(played) : played[k].duration # None
                 THEN Some(SumDurations(played)) ELSE None
        repeating == /\ ~paused
                     /\ total # None
                     /\ (played[Len(played)].loop \/ (wraps /\ ~Blocked(played)))
    IN [startTime |-> entry.startTime,
        endTime |-> IF entry.stopTime # None THEN entry.stopTime
                    ELSE IF paused \/ repeating \/ total = None THEN None
                    ELSE Some(entry.startTime + total[1]),
        pauseTime |-> entry.pauseTime,
        stopTime |-> entry.stopTime,
        repeating |-> repeating,
        duration |-> total,
        fromSchedule |-> entry.fromSchedule,
        parts |-> [k \in 1..Len(played) |->
                     [part |-> played[k].id,
                      startTime |-> SumDurations(SubSeq(played, 1, k - 1)),
                      duration |-> played[k].duration]]]

\* Entries that can play: their part is in the group and enabled.
Relevant(group) ==
    SelectSeq(group.playingParts,
              LAMBDA e : /\ PartIndex(group, e.partId) # 0
                         /\ ~group.parts[PartIndex(group, e.partId)].disabled)

\* prepare(group): null for a disabled group or one without relevant entries; for a
\* oneAtATime group one section list that starts at the entry marked playing or
\* paused (a stopped one when all are stopped); otherwise a section per entry.
Prepare(group) ==
    LET rel == Relevant(group)
        live == SelectSeq(rel, LAMBDA e : e.stopTime = None)
        first == IF live # <<>> THEN live[1] ELSE rel[1]
    IN IF group.disabled \/ rel = <<>> THEN None
       ELSE IF group.oneAtATime
       THEN Some([type |-> "single",
                  sections |-> <<Section(first, SectionParts(group, PartIndex(group, first.partId)),
                                         group.autoPlay /\ group.loop)>>])
       ELSE Some([type |-> "multi",
                  sections |-> [k \in 1..Len(rel) |->
                                   Section(rel[k], <<group.parts[PartIndex(group, rel[k].partId)]>>,
                                           FALSE)]])

\* resolvePlayhead for one section at time t: <<>> or one playhead
\* [partId, partStartTime, partPauseTime, fromSchedule]. A section covers
\* [startTime, endTime); a paused one reports its frozen offset whatever t is;
\* a repeating one is read modulo its duration, which is guarded against 0.
SectionPlayhead(sec, t) ==
    LET elapsed == t - sec.startTime
        offset == IF sec.repeating /\ sec.duration # None /\ sec.duration[1] > 0
                  THEN elapsed % sec.duration[1] ELSE elapsed
        hit == {k \in 1..Len(sec.parts) :
                   /\ sec.parts[k].startTime <= offset
                   /\ (sec.parts[k].duration = None
                       \/ offset < sec.parts[k].startTime + sec.parts[k].duration[1])}
    IN IF sec.endTime # None /\ t >= sec.endTime[1] THEN <<>>
       ELSE IF sec.pauseTime # None
       THEN <<[partId |-> sec.parts[1].part, partStartTime |-> sec.startTime,
               partPauseTime |-> sec.pauseTime, fromSchedule |-> sec.fromSchedule]>>
       ELSE IF t < sec.startTime \/ hit = {} THEN <<>>
       ELSE LET k == CHOOSE x \in hit : TRUE IN
            <<[partId |-> sec.parts[k].part,
               partStartTime |-> (t - offset) + sec.parts[k].startTime,
               partPauseTime |-> None, fromSchedule |-> sec.fromSchedule]>>

RECURSIVE Playheads(_, _)
Playheads(sections, t) ==
    IF sections = <<>> THEN <<>>
    ELSE SectionPlayhead(sections[1], t) \o Playheads(Tail(sections), t)

\* getGroupPlayData(prepared).playheads at time t, in key order
getGroupPlayData(prepared, t) ==
    IF prepared = None THEN <<>> ELSE Playheads(prepared[1].sections, t)

\* playData.playheads[partId]: <<>> when the part has no playhead
PlayheadOf(playheads, partId) == SelectSeq(playheads, LAMBDA h : h.partId = partId)

\* updateGroupPlayingParts(group): playingParts become the parts that have a
\* playhead now, each with the playhead's start and pause time and no stopTime.
updateGroupPlayingParts(group, t) ==
    LET heads == getGroupPlayData(group.preparedPlayData, t) IN
    [group EXCEPT !.playingParts =
        [k \in 1..Len(heads) |->
            PlayingPart(heads[k].partId, heads[k].partStartTime, heads[k].partPauseTime,
                        None, heads[k].fromSchedule)]]

\* this.callbacks.updateTimeline(group)
updateTimeline(group) == Prepare(group)

----------------------------------------------------------------------------
(* Playout commands.                                                       *)

\* Commands per behaviour of the rundown model, and the last clock value.
MaxCommands == 3
MaxTime == 2

\* getDefaultPart() / getDefaultGroup(), with the resolved duration of the part
DefaultPart(id, duration) ==
    [id |-> id, disabled |-> FALSE, locked |-> FALSE, loop |-> FALSE, duration |-> duration]

DefaultGroup(id) ==
    [id |-> id, transparent |-> FALSE, oneAtATime |-> TRUE, loop |-> FALSE, autoPlay |-> FALSE,
     disabled |-> FALSE, locked |-> FALSE, parts |-> <<>>, playingParts |-> <<>>,
     preparedPlayData |-> None]

\* _saveUpdates that never updates the timeline
_saveUpdatesNoEffect(group, t, noEffectOnPlayout) ==
    IF Len(group.parts) > 1 THEN [group EXCEPT !.transparent = FALSE] ELSE group

\* _saveUpdates, lines 2474-2481, for one group of updates.group
_saveUpdates(group, t, noEffectOnPlayout) ==
    LET g == IF Len(group.parts) > 1 THEN [group EXCEPT !.transparent = FALSE] ELSE group IN
    IF noEffectOnPlayout THEN g
    ELSE updateGroupPlayingParts([g EXCEPT !.preparedPlayData = updateTimeline(g)], t)

\* _playPart without the solo reset
_playPartKeepsOthers(group, part, t) ==
    IF part.disabled THEN group
    ELSE [group EXCEPT !.playingParts =
             SetEntry(group.playingParts, PlayingPart(part.id, t, None, None, FALSE))]

\* _playPart that leaves the start time of an entry it finds
_playPartKeepsStart(group, part, t) ==
    IF part.disabled THEN group
    ELSE LET i == KeyIndex(group.playingParts, part.id) IN
         [group EXCEPT !.playingParts =
             IF group.oneAtATime \/ i = 0
             THEN SetEntry(IF group.oneAtATime THEN <<>> ELSE group.playingParts,
                           PlayingPart(part.id, t, None, None, FALSE))
             ELSE group.playingParts]

_playPart(group, part, t) ==
    IF part.disabled THEN group
    ELSE [group EXCEPT !.playingParts =
             SetEntry(IF group.oneAtATime THEN <<>> ELSE group.playingParts,
                      PlayingPart(part.id, t, None, None, FALSE))]

\* _pausePart that resumes a paused part without moving its start time
_pausePartKeepsStart(group, part, pauseTime, t) ==
    LET playhead == PlayheadOf(getGroupPlayData(group.preparedPlayData, t), part.id)
        entry == IF playhead # <<>>
                 THEN PlayingPart(part.id, playhead[1].partStartTime,
                                  IF playhead[1].partPauseTime # None THEN None
                                  ELSE IF pauseTime # None THEN pauseTime
                                  ELSE Some(t - playhead[1].partStartTime), None, FALSE)
                 ELSE PlayingPart(part.id, t, IF pauseTime # None THEN pauseTime ELSE Some(0),
                                  None, FALSE)
    IN IF part.disabled THEN group
       ELSE [group EXCEPT !.playingParts = SetEntry(group.playingParts, entry)]

\* _pausePart that resumes a paused part from its beginning
_pausePartRestarts(group, part, pauseTime, t) ==
    LET playhead == PlayheadOf(getGroupPlayData(group.preparedPlayData, t), part.id)
        entry == IF playhead # <<>> /\ playhead[1].partPauseTime = None
                 THEN PlayingPart(part.id, playhead[1].partStartTime,
                                  IF pauseTime # None THEN pauseTime
                                  ELSE Some(t - playhead[1].partStartTime), None, FALSE)
                 ELSE IF playhead # <<>>
                 THEN PlayingPart(part.id, t, None, None, FALSE)
                 ELSE PlayingPart(part.id, t, IF pauseTime # None THEN pauseTime ELSE Some(0),
                                  None, FALSE)
    IN IF part.disabled THEN group
       ELSE [group EXCEPT !.playingParts = SetEntry(group.playingParts, entry)]

\* _pausePart, lines 445-495
_pausePart(group, part, pauseTime, t) ==
    LET playingParts == group.playingParts
        others == IF group.oneAtATime
                  THEN [i \in 1..Len(playingParts) |->
                           IF playingParts[i].partId # part.id
                           THEN [playingParts[i] EXCEPT !.stopTime = Some(t)]
                           ELSE playingParts[i]]
                  ELSE playingParts
        playhead == PlayheadOf(getGroupPlayData(group.preparedPlayData, t), part.id)
        entry == IF playhead # <<>>
                 THEN IF playhead[1].partPauseTime = None
                      THEN PlayingPart(part.id, playhead[1].partStartTime,
                                       IF pauseTime # None THEN pauseTime
                                       ELSE Some(t - playhead[1].partStartTime),
                                       None, FALSE)
                      ELSE PlayingPart(part.id, t - playhead[1].partPauseTime[1], None, None, FALSE)
                 ELSE PlayingPart(part.id, t, IF pauseTime # None THEN pauseTime ELSE Some(0),
                                  None, FALSE)
    IN IF part.disabled THEN group
       ELSE [group EXCEPT !.playingParts = SetEntry(others, entry)]

\* The run of commands that one part has been given without any other command in
\* between: playPart at time `played`, then pausePart without a time argument at a
\* later time `paused`, when the part's playhead was playing.
Run(run, method, arg, gs, t) ==
    LET gi == GroupIndex(gs, arg.groupId)
        pi == IF gi = 0 THEN 0 ELSE PartIndex(gs[gi], arg.partId)
        playhead == IF gi = 0 THEN <<>>
                    ELSE PlayheadOf(getGroupPlayData(gs[gi].preparedPlayData, t), arg.partId)
    IN IF pi = 0 \/ gs[gi].parts[pi].disabled THEN NoRun
       ELSE IF method = "playPart"
       THEN [partId |-> arg.partId, played |-> Some(t), paused |-> None]
       ELSE IF /\ method = "pausePart"
               /\ run.partId = arg.partId
               /\ run.played # None
               /\ run.paused = None
               /\ t > run.played[1]
               /\ arg.time = None
               /\ playhead # <<>>
               /\ playhead[1].partPauseTime = None
       THEN [run EXCEPT !.paused = Some(t)]
       ELSE NoRun

\* An IPC invocation of a rundown command that returns: the wrapper's bookkeeping
\* (lines 146-170) and the groups as the command leaves them. `staged` is what the
\* command had written to playingParts of its group when it called _saveUpdates.
\* `flushed` is the group that the command's first call of _saveUpdates handed to
\* callbacks.updateTimeline: whether it was in rundown.groups then, the ids of its
\* parts and its playingParts.
CommandFlushing(method, arg, result, undo, newGroups, staged, flushed) ==
    /\ execCount < MaxCommands
    /\ HandlerReturns(method, arg, result, undo)
    /\ groups' = newGroups
    /\ before' = [groups |-> groups, staged |-> staged,
                  run |-> Run(before.run, method, arg, groups, now),
                  flushed |-> flushed]
    /\ UNCHANGED <<now, apartVars>>

Command(method, arg, result, undo, newGroups, staged) ==
    CommandFlushing(method, arg, result, undo, newGroups, staged, NoFlush)

\* An IPC invocation of a rundown command that throws: the wrapper's catch (lines
\* 171-177) and the groups as the command left them when it threw.
CommandThrows(method, arg, newGroups) ==
    /\ execCount < MaxCommands
    /\ HandlerThrows(method, arg)
    /\ groups' = newGroups
    /\ before' = [groups |-> groups, staged |-> <<>>, run |-> NoRun, flushed |-> NoFlush]
    /\ UNCHANGED <<now, apartVars>>

\* playPart, lines 380-387
PlayPart ==
    \E gi \in 1..Len(groups) : \E pi \in 1..Len(groups[gi].parts) :
        LET group == groups[gi]
            part == group.parts[pi]
            played == _playPart(group, part, now)
        IN Command("playPart", [groupId |-> group.id, partId |-> part.id], Undefined, None,
                   [groups EXCEPT ![gi] = _saveUpdates(played, now, FALSE)],
                   played.playingParts)

\* pausePart, lines 420-427
PausePart ==
    \E gi \in 1..Len(groups) : \E pi \in 1..Len(groups[gi].parts) : \E time \in {None, Some(1)} :
        LET group == groups[gi]
            part == group.parts[pi]
            paused == _pausePart(updateGroupPlayingParts(group, now), part, time, now)
        IN Command("pausePart", [groupId |-> group.id, partId |-> part.id, time |-> time],
                   Undefined, None,
                   [groups EXCEPT ![gi] = _saveUpdates(paused, now, FALSE)],
                   paused.playingParts)

\* An id that no group, part or timeline object of the rundown has.
NoSuchId == 99

\* Stopped that gives every entry a stopTime
StoppedAll(playingParts, partIds, t) ==
    [i \in 1..Len(playingParts) |-> [playingParts[i] EXCEPT !.stopTime = Some(t)]]

\* playingParts[partId].stopTime = now for the entries of partIds, lines 502-510 and 560-562
Stopped(playingParts, partIds, t) ==
    [i \in 1..Len(playingParts) |->
        IF playingParts[i].partId \in partIds
        THEN [playingParts[i] EXCEPT !.stopTime = Some(t)]
        ELSE playingParts[i]]

\* stopPart, lines 496-513; the partId need not be the id of a part
StopPart ==
    \E gi \in 1..Len(groups) :
    \E partId \in {groups[gi].parts[i].id : i \in 1..Len(groups[gi].parts)} \cup {NoSuchId} :
        LET group == groups[gi]
            stopped == [group EXCEPT !.playingParts =
                           Stopped(@, IF group.oneAtATime THEN Keys(@) ELSE {partId}, now)]
        IN Command("stopPart", [groupId |-> group.id, partId |-> partId], Undefined, None,
                   [groups EXCEPT ![gi] = _saveUpdates(stopped, now, FALSE)],
                   stopped.playingParts)

\* stopGroup, lines 555-565
StopGroup ==
    \E gi \in 1..Len(groups) :
        LET group == groups[gi]
            stopped == [group EXCEPT !.playingParts = Stopped(@, Keys(@), now)]
        IN Command("stopGroup", [groupId |-> group.id, partId |-> 0], Undefined, None,
                   [groups EXCEPT ![gi] = _saveUpdates(stopped, now, FALSE)],
                   stopped.playingParts)

\* Time passes between two IPC messages.
Tick ==
    /\ now < MaxTime
    /\ now' = now + 1
    /\ lastCall' = [NoCall EXCEPT !.op = "tick"]
    /\ UNCHANGED <<undoLedger, undoPointer, execCount, pending, interleaved, groups, before,
                    apartVars>>

\* One group of three parts (endless, two ticks long, one tick long and looping),
\* as a solo or a parallel group, with autoPlay and loop on or off (loop only
\* shows under autoPlay).
InitPlay ==
    /\ undoLedger = <<>>
    /\ undoPointer = -1
    /\ execCount = 0
    /\ pending = {}
    /\ lastCall = NoCall
    /\ interleaved = FALSE
    /\ now = 0
    /\ before = NoObservation
    /\ Apart
    /\ \E oneAtATime, autoPlay, loop, disabled \in BOOLEAN :
          /\ loop => autoPlay
          /\ groups = <<[DefaultGroup(1) EXCEPT
                           !.oneAtATime = oneAtATime, !.autoPlay = autoPlay, !.loop = loop,
                           !.parts = <<DefaultPart(1, None),
                                       [DefaultPart(2, Some(2)) EXCEPT !.disabled = disabled],
                                       [DefaultPart(3, Some(1)) EXCEPT !.loop = TRUE]>>]>>

NextPlay ==
    \/ PlayPart
    \/ PausePart
    \/ Tick

SpecPlay == InitPlay /\ [][NextPlay]_vars

----------------------------------------------------------------------------
(* Claims about play and pause.                                            *)

\* The entries of playingParts that have no stopTime.
Live(playingParts) == {i \in 1..Len(playingParts) : playingParts[i].stopTime = None}

\* The group a finished command was aimed at, in rundown.groups gs.
TargetGroup(gs, call) == gs[GroupIndex(gs, call.arguments[1].groupId)]

\* C9: solo invariant: in every group with oneAtATime = true, after any sequence of
\* playPart and pausePart commands on its parts, at most one entry of
\* playout.playingParts has no stopTime. This holds of the entries as the command
\* wrote them and as _saveUpdates left them.
C9_SoloInvariant ==
    /\ \A gi \in 1..Len(groups) :
          groups[gi].oneAtATime => Cardinality(Live(groups[gi].playingParts)) <= 1
    /\ (lastCall.op = "handler" /\ TargetGroup(groups, lastCall).oneAtATime) =>
          Cardinality(Live(before.staged)) <= 1

\* C9 witness: in a solo group a part was paused (cued) while another part was
\* playing: the other entry got its stopTime, the cued part is the only live one.
C9_Witness ==
    /\ lastCall.op = "handler"
    /\ lastCall.method = "pausePart"
    /\ TargetGroup(groups, lastCall).oneAtATime
    /\ Len(before.staged) = 2
    /\ Cardinality(Live(before.staged)) = 1
    /\ Keys(TargetGroup(groups, lastCall).playingParts) = {lastCall.arguments[1].partId}

\* A playPart command on an enabled part has just returned.
PlayedPart ==
    /\ lastCall'.op = "handler"
    /\ lastCall'.method = "playPart"
    /\ LET group == TargetGroup(groups, lastCall') IN
       ~group.parts[PartIndex(group, lastCall'.arguments[1].partId)].disabled

Entries(playingParts) == {playingParts[i] : i \in 1..Len(playingParts)}

\* C10: playPart on a non-disabled part P at time now: in a oneAtATime group the
\* resulting playingParts holds exactly one entry, P, with startTime = now and no
\* pauseTime or stopTime; in a parallel group P's entry is set to that value and
\* every other entry is left unchanged. This is stated of the playingParts that
\* playPart writes and hands to _saveUpdates; of what _saveUpdates leaves it says
\* that P's entry is there with that value, in a oneAtATime group as the only one.
C10_PlayStep ==
    PlayedPart =>
        LET arg == lastCall'.arguments[1]
            group == TargetGroup(groups, lastCall')
            old == group.playingParts
            written == before'.staged
            saved == TargetGroup(groups', lastCall').playingParts
            entry == PlayingPart(arg.partId, now, None, None, FALSE)
        IN IF group.oneAtATime
           THEN written = <<entry>> /\ saved = <<entry>>
           ELSE /\ entry \in Entries(written)
                /\ Keys(written) = Keys(old) \cup {arg.partId}
                /\ Len(written) = Cardinality(Keys(written))
                /\ \A e \in Entries(old) : e.partId # arg.partId => e \in Entries(written)
                /\ entry \in Entries(saved)

----------------------------------------------------------------------------
(* Structural edits and their undo functions. Identifiers are numbers; the  *)
(* ids that shortID() returns during an execution are derived from the     *)
(* execution's number, so that no two executions get the same id. A null   *)
(* groupId is 0. The undo function of an execution is kept in the ledger   *)
(* as the record of what its closure captured.                             *)

shortID(kind) == 10 * (execCount + 1) + kind

\* array.splice(index, 0, item), index counted from 0
Splice(array, index, item) ==
    IF index >= Len(array) THEN Append(array, item)
    ELSE SubSeq(array, 1, index) \o <<item>> \o SubSeq(array, index + 1, Len(array))

\* array.filter((x) => x.id !== id)
WithoutId(array, id) == SelectSeq(array, LAMBDA x : x.id # id)

\* newPart, lines 663-708
NewPart ==
    \E groupId \in {0} \cup {groups[i].id : i \in 1..Len(groups)} :
        LET newPart == DefaultPart(shortID(1), Some(0))
            gi == GroupIndex(groups, groupId)
            arg == [groupId |-> groupId, partId |-> 0]
        IN IF groupId # 0
           THEN IF groups[gi].locked
                THEN Command("newPart", arg, Undefined, None, groups, <<>>)
                ELSE Command("newPart", arg, UndoableResult,
                             [kind |-> "newPart", groupId |-> groupId, partId |-> newPart.id,
                              transparentGroupId |-> 0],
                             [groups EXCEPT ![gi].parts = Append(@, newPart)], <<>>)
           ELSE Command("newPart", arg, UndoableResult,
                        [kind |-> "newPart", groupId |-> groupId, partId |-> newPart.id,
                         transparentGroupId |-> shortID(2)],
                        Append(groups, [DefaultGroup(shortID(2)) EXCEPT
                                           !.transparent = TRUE, !.parts = <<newPart>>]),
                        <<>>)

\* newGroup, lines 926-937
NewGroup ==
    Command("newGroup", [groupId |-> 0, partId |-> 0], UndoableResult,
            [kind |-> "newGroup", groupId |-> shortID(2)],
            Append(groups, DefaultGroup(shortID(2))), <<>>)

\* updateGroup, lines 1038-1075, for a patch {[attribute]: value} of one playout flag
UpdateGroup ==
    \E gi \in 1..Len(groups) : \E attribute \in {"oneAtATime", "autoPlay", "loop", "disabled"} :
        LET group == groups[gi]
            value == ~group[attribute]
            arg == [groupId |-> group.id, partId |-> 0, attribute |-> attribute, value |-> value]
            extended == [group EXCEPT ![attribute] = value]
        IN IF group.locked
           THEN Command("updateGroup", arg, Undefined, None, groups, <<>>)
           ELSE Command("updateGroup", arg, UndoableResult,
                        [kind |-> "updateGroup", groupId |-> group.id, groupPreChange |-> group],
                        [groups EXCEPT ![gi] = _saveUpdates(extended, now, FALSE)],
                        extended.playingParts)

\* deletePart, lines 1087-1108
DeletePart ==
    \E gi \in 1..Len(groups) : \E pi \in 1..Len(groups[gi].parts) :
        LET group == groups[gi]
            part == group.parts[pi]
            arg == [groupId |-> group.id, partId |-> part.id]
            saved == _saveUpdates([group EXCEPT !.parts = WithoutId(@, part.id)], now, FALSE)
            deletesGroup == group.transparent /\ Len(group.parts) = 1
        IN IF group.locked \/ part.locked
           THEN Command("deletePart", arg, Undefined, None, groups, <<>>)
           ELSE CommandFlushing("deletePart", arg, UndoableResult,
                        [kind |-> "deletePart", groupId |-> group.id, deletedPart |-> part,
                         deletedPartIndex |-> pi - 1,
                         deletedTransparentGroup |-> IF deletesGroup THEN Some(saved) ELSE None,
                         deletedTransparentGroupIndex |-> IF deletesGroup THEN gi - 1 ELSE -1],
                        IF deletesGroup THEN WithoutId(groups, group.id)
                        ELSE [groups EXCEPT ![gi] = saved],
                        group.playingParts,
                        [called |-> TRUE, inRundown |-> ~deletesGroup,
                         partIds |-> {group.parts[i].id : i \in 1..Len(group.parts)} \ {part.id},
                         playingParts |-> group.playingParts])

\* deleteGroup, lines 1138-1146: the group as it is when it leaves the rundown
deleteGroup(group, t) ==
    _saveUpdates(_saveUpdates([group EXCEPT !.playingParts = <<>>], t, FALSE), t, FALSE)

\* deleteGroup, lines 1131-1148
DeleteGroup ==
    \E gi \in 1..Len(groups) :
        LET group == groups[gi]
            arg == [groupId |-> group.id, partId |-> 0]
        IN IF group.locked
           THEN Command("deleteGroup", arg, Undefined, None, groups, <<>>)
           ELSE CommandFlushing("deleteGroup", arg, UndoableResult,
                        [kind |-> "deleteGroup", deletedGroup |-> deleteGroup(group, now),
                         deletedGroupIndex |-> gi - 1],
                        WithoutId(groups, group.id), <<>>,
                        [called |-> TRUE, inRundown |-> TRUE,
                         partIds |-> {group.parts[i].id : i \in 1..Len(group.parts)},
                         playingParts |-> <<>>])

\* duplicatePart, lines 1346-1376
DuplicatePart ==
    \E gi \in 1..Len(groups) : \E pi \in 1..Len(groups[gi].parts) :
        LET group == groups[gi]
            copy == [group.parts[pi] EXCEPT !.id = shortID(1)]
            newGroup == [DefaultGroup(shortID(2)) EXCEPT !.transparent = TRUE, !.parts = <<copy>>]
            arg == [groupId |-> group.id, partId |-> group.parts[pi].id]
        IN Command("duplicatePart", arg, UndoableResult,
                   [kind |-> "duplicatePart", groupId |-> group.id, copyId |-> copy.id,
                    newGroupId |-> IF group.transparent THEN newGroup.id ELSE 0],
                   IF group.transparent
                   THEN Splice(groups, gi, _saveUpdates(newGroup, now, FALSE))
                   ELSE [groups EXCEPT ![gi] =
                            _saveUpdates([group EXCEPT !.parts = Splice(@, pi, copy)], now, FALSE)],
                   group.playingParts)

\* toggleGroupLock, lines 1975-1983
ToggleGroupLock ==
    \E gi \in 1..Len(groups) : \E value \in BOOLEAN :
        LET group == groups[gi] IN
        Command("toggleGroupLock", [groupId |-> group.id, partId |-> 0, value |-> value],
                UndoableResult,
                [kind |-> "toggleGroupLock", groupId |-> group.id, originalValue |-> group.locked],
                [groups EXCEPT ![gi] = _saveUpdates([group EXCEPT !.locked = value], now, TRUE)],
                <<>>)

\* The undo closures returned by the commands above (newPart 709-720, newGroup
\* 938-942, updateGroup 1076-1083, deletePart 1111-1127, deleteGroup 1149-1157,
\* duplicatePart 1377-1391, toggleGroupLock 1984-1990), run on rundown.groups gs at
\* time t: None when getGroup throws, else the groups they leave.
ApplyUndo(undo, gs, t) ==
    LET gi == IF "groupId" \in DOMAIN undo THEN GroupIndex(gs, undo.groupId) ELSE 0 IN
    CASE undo.kind = "newPart" ->
            IF undo.transparentGroupId # 0 THEN Some(WithoutId(gs, undo.transparentGroupId))
            ELSE IF gi = 0 THEN None
            ELSE Some([gs EXCEPT ![gi].parts = WithoutId(@, undo.partId)])
      [] undo.kind = "newGroup" -> Some(WithoutId(gs, undo.groupId))
      [] undo.kind = "updateGroup" ->
            IF gi = 0 THEN None ELSE Some([gs EXCEPT ![gi] = undo.groupPreChange])
      [] undo.kind = "deletePart" ->
            IF undo.deletedTransparentGroup # None
            THEN Some(Splice(gs, undo.deletedTransparentGroupIndex,
                             [undo.deletedTransparentGroup[1] EXCEPT
                                 !.parts = Append(@, undo.deletedPart)]))
            ELSE IF gi = 0 THEN None
            ELSE Some([gs EXCEPT ![gi].parts = Splice(@, undo.deletedPartIndex, undo.deletedPart)])
      [] undo.kind = "deleteGroup" ->
            Some(Splice(gs, undo.deletedGroupIndex, _saveUpdates(undo.deletedGroup, t, FALSE)))
      [] undo.kind = "duplicatePart" ->
            IF gi = 0 THEN None
            ELSE IF undo.newGroupId # 0 THEN Some(WithoutId(gs, undo.newGroupId))
            ELSE Some([gs EXCEPT ![gi] =
                          _saveUpdates(_saveUpdates([gs[gi] EXCEPT !.parts = WithoutId(@, undo.copyId)],
                                                    t, FALSE), t, FALSE)])
      [] undo.kind = "insertParts" ->
            IF gi = 0 THEN None
            ELSE Some([gs EXCEPT ![gi] =
                          _saveUpdates([gs[gi] EXCEPT !.parts =
                                           SelectSeq(@, LAMBDA p :
                                               \E i \in 1..Len(undo.originalPartIds) :
                                                   undo.originalPartIds[i] = p.id)],
                                       t, FALSE)])
      [] undo.kind = "insertGroups" ->
            Some(SelectSeq(gs, LAMBDA g : \E i \in 1..Len(undo.originalGroupIds) :
                                             undo.originalGroupIds[i] = g.id))
      [] undo.kind = "moveParts" -> Some(undo.originalGroups)
      [] undo.kind = "updatePart" ->
            IF gi = 0 \/ PartIndex(gs[gi], undo.partId) = 0 THEN None
            ELSE Some([gs EXCEPT ![gi].parts[PartIndex(gs[gi], undo.partId)] = undo.partPreChange])
      [] undo.kind = "toggleGroupLock" ->
            IF gi = 0 THEN None
            ELSE Some([gs EXCEPT ![gi] =
                          _saveUpdates([gs[gi] EXCEPT !.locked = undo.originalValue], t, TRUE)])

\* undo(), lines 230-243, with the stored undo function run on the rundown
UndoCommand ==
    LET action == EntryAt(undoLedger, undoPointer)
        result == IF action = None THEN None ELSE ApplyUndo(action[1].undo, groups, now)
    IN /\ IF result # None
          THEN /\ groups' = result[1]
               /\ undoPointer' = AfterUndo(undoPointer)
               /\ UNCHANGED undoLedger
               /\ lastCall' = [NoCall EXCEPT !.op = "undo", !.method = action[1].description,
                                  !.outcome = "returned", !.calledUndo = Some(action[1].seq)]
          ELSE /\ undoLedger' = ClearLedger(undoLedger)
               /\ undoPointer' = -1
               /\ UNCHANGED groups
               /\ lastCall' = [NoCall EXCEPT !.op = "undo", !.outcome = "threw"]
       /\ before' = [before EXCEPT !.run = NoRun]
       /\ UNCHANGED <<execCount, pending, interleaved, now, apartVars>>

\* A rundown of two groups: a solo group of two parts (endless, two ticks long) and
\* a transparent group around one locked part.
InitRundown ==
    /\ undoLedger = <<>>
    /\ undoPointer = -1
    /\ execCount = 0
    /\ pending = {}
    /\ lastCall = NoCall
    /\ interleaved = FALSE
    /\ now = 0
    /\ before = NoObservation
    /\ Apart
    /\ groups = <<[DefaultGroup(1) EXCEPT
                     !.parts = <<DefaultPart(1, None), DefaultPart(2, Some(2))>>],
                  [DefaultGroup(2) EXCEPT
                     !.transparent = TRUE,
                     !.parts = <<[DefaultPart(3, Some(1)) EXCEPT !.locked = TRUE]>>]>>

NextRundown ==
    \/ PlayPart
    \/ NewPart
    \/ NewGroup
    \/ UpdateGroup
    \/ DeletePart
    \/ DeleteGroup
    \/ DuplicatePart
    \/ ToggleGroupLock
    \/ UndoCommand

SpecRundown == InitRundown /\ [][NextRundown]_vars

----------------------------------------------------------------------------
(* Claims about the structural edits.                                      *)

\* The rundown without the cache of prepared play data: groups and parts in
\* order, their attributes and their playout entries.
Structure(gs) == [i \in 1..Len(gs) |-> [gs[i] EXCEPT !.preparedPlayData = None]]

\* C7: for newPart, newGroup, deletePart, deleteGroup and updateGroup (of the
\* commands insertTimelineObjs and moveParts too, which this model leaves out), from
\* any reachable rundown, also one with playing groups, executing the command and
\* then immediately calling its undo yields a rundown structurally equal to the one
\* before the command: same groups and parts in the same order, same attributes and
\* same playout entries.
C7_RoundTripStep ==
    (/\ lastCall.op = "handler"
     /\ lastCall.result = UndoableResult
     /\ lastCall.method \in {"newPart", "newGroup", "deletePart", "deleteGroup", "updateGroup"}
     /\ lastCall'.op = "undo"
     /\ lastCall'.outcome = "returned") =>
        Structure(groups') = Structure(before.groups)

C7_UndoRoundTrip == [][C7_RoundTripStep]_vars

\* The group or the part that the command just finished was aimed at was locked
\* when the command was invoked.
TargetLocked ==
    LET arg == lastCall'.arguments[1]
        gi == GroupIndex(groups, arg.groupId)
        pi == IF gi = 0 THEN 0 ELSE PartIndex(groups[gi], arg.partId)
    IN /\ gi # 0
       /\ groups[gi].locked \/ (pi # 0 /\ groups[gi].parts[pi].locked)

\* C8: every editing command whose target group or part is locked (here newPart,
\* updateGroup, deletePart, deleteGroup and duplicatePart) returns undefined and
\* leaves the rundown unchanged; commands whose purpose is to toggle the locked
\* flag are the only exceptions.
C8_LockedStep ==
    (/\ lastCall'.op = "handler"
     /\ lastCall'.method \in {"newPart", "updateGroup", "deletePart", "deleteGroup", "duplicatePart"}
     /\ TargetLocked) =>
        (lastCall'.result = Undefined /\ groups' = groups)

C8_LockedCommandsNoOp == [][C8_LockedStep]_vars

----------------------------------------------------------------------------
(* Claims about pause, resume and stop.                                    *)

\* A pausePart command on an enabled part has just returned.
PausedPart ==
    /\ lastCall'.op = "handler"
    /\ lastCall'.method = "pausePart"
    /\ LET group == TargetGroup(groups, lastCall') IN
       ~group.parts[PartIndex(group, lastCall'.arguments[1].partId)].disabled

\* The entry of part partId in playingParts, as an optional value.
EntryOf(playingParts, partId) ==
    LET i == KeyIndex(playingParts, partId) IN
    IF i = 0 THEN None ELSE Some(playingParts[i])

\* The playhead of the part that call was aimed at, resolved at time t from the
\* play data prepared for its group in rundown.groups gs.
TargetPlayhead(gs, call, t) ==
    PlayheadOf(getGroupPlayData(TargetGroup(gs, call).preparedPlayData, t),
               call.arguments[1].partId)

\* C11: pausePart on a non-disabled part has exactly three outcomes, chosen by the
\* part's resolved playhead: a playing part keeps the playhead's start time and gets
\* pauseTime = now - partStartTime (or the explicit time argument); a paused part is
\* resumed with startTime = now - its frozen offset and no pauseTime; a part without
\* a playhead gets an entry paused at offset 0 (or the explicit time). In all three
\* the entry has no stopTime. This is stated of the entry that pausePart writes and
\* hands to _saveUpdates; a paused entry is still there, unchanged, after the save.
C11_PauseStep ==
    PausedPart =>
        LET arg == lastCall'.arguments[1]
            playhead == TargetPlayhead(groups, lastCall', now)
            written == EntryOf(before'.staged, arg.partId)
            saved == EntryOf(TargetGroup(groups', lastCall').playingParts, arg.partId)
            outcome ==
                IF playhead = <<>>
                THEN PlayingPart(arg.partId, now,
                                 IF arg.time # None THEN arg.time ELSE Some(0), None, FALSE)
                ELSE IF playhead[1].partPauseTime = None
                THEN PlayingPart(arg.partId, playhead[1].partStartTime,
                                 IF arg.time # None THEN arg.time
                                 ELSE Some(now - playhead[1].partStartTime), None, FALSE)
                ELSE PlayingPart(arg.partId, now - playhead[1].partPauseTime[1],
                                 None, None, FALSE)
        IN /\ written = Some(outcome)
           /\ outcome.stopTime = None
           /\ outcome.pauseTime # None => saved = written
           /\ saved # None => saved[1].stopTime = None

ResumedRun ==
    /\ PausedPart
    /\ before.run.partId = lastCall'.arguments[1].partId
    /\ before.run.paused # None
    /\ now > before.run.paused[1]

\* C12 as stated: for playPart at t0, pausePart at t1 > t0 and a second pausePart
\* (resume) at t2 > t1 on the same part, the elapsed offset right after the resume
\* (t2 - new startTime) equals t1 - t0 and the entry is playing (no pauseTime, no
\* stopTime).
C12_ResumeStepAsStated ==
    ResumedRun =>
        LET written == EntryOf(before'.staged, lastCall'.arguments[1].partId)
            t0 == before.run.played[1]
            t1 == before.run.paused[1]
        IN /\ written # None
           /\ written[1].pauseTime = None
           /\ written[1].stopTime = None
           /\ now - written[1].startTime = t1 - t0

C12_ResumeStep ==
    ResumedRun =>
        LET group == TargetGroup(groups, lastCall')
            part == group.parts[PartIndex(group, lastCall'.arguments[1].partId)]
            written == EntryOf(before'.staged, part.id)
            t0 == before.run.played[1]
            t1 == before.run.paused[1]
        IN /\ written # None
           /\ written[1].pauseTime = None
           /\ written[1].stopTime = None
           /\ now - written[1].startTime =
                 IF part.loop /\ part.duration # None /\ part.duration[1] > 0
                 THEN (t1 - t0) % part.duration[1]
                 ELSE t1 - t0

----------------------------------------------------------------------------
(* The transport of one group: play, pause, stop and step.                 *)

\* The index (from 0) of the part that plays in a solo group, -1 when none does.
CurrentPartIndex(group) ==
    IF group.playingParts = <<>> THEN -1
    ELSE PartIndex(group, group.playingParts[1].partId) - 1

\* getNextPartIndex / getPrevPartIndex: the index (from 0) of the first part that is
\* not disabled, walking forwards (backwards) from the playing part and wrapping
\* around; -1 when every part is disabled.
StepIndex(group, forward) ==
    LET n == Len(group.parts)
        current == CurrentPartIndex(group)
        from == IF current = -1 /\ ~forward THEN 0 ELSE current
        at(k) == IF forward THEN (from + k) % n ELSE (from + k * (n - 1)) % n
        steps == {k \in 1..n : ~group.parts[at(k) + 1].disabled}
    IN IF steps = {} THEN -1
       ELSE at(CHOOSE k \in steps : \A j \in steps : k <= j)

getNextPartIndex(group) == StepIndex(group, TRUE)

getPrevPartIndex(group) == StepIndex(group, FALSE)

\* CanStep that lets every group step
CanStepAlways(group) == TRUE

\* playNext / playPrev go on, lines 640-642 and 653-655
CanStep(group) == ~(group.disabled \/ ~group.oneAtATime)

\* playNext / playPrev, lines 637-662, with the index that lib/util returns
PlayStep(method, gi, forward) ==
    LET group == groups[gi]
        arg == [groupId |-> group.id, partId |-> 0]
        updated == updateGroupPlayingParts(group, now)
        partIndex == IF forward THEN getNextPartIndex(updated) ELSE getPrevPartIndex(updated)
        played == _playPart(updated, updated.parts[partIndex + 1], now)
    IN IF ~CanStep(group)
       THEN Command(method, arg, Undefined, None, groups, <<>>)
       ELSE IF partIndex < 0
       THEN Command(method, arg, Undefined, None, [groups EXCEPT ![gi] = updated], <<>>)
       ELSE Command(method, arg, Undefined, None,
                    [groups EXCEPT ![gi] = _saveUpdates(played, now, FALSE)],
                    played.playingParts)

\* playNext, lines 637-649
PlayNext == \E gi \in 1..Len(groups) : PlayStep("playNext", gi, TRUE)

\* playPrev, lines 650-662
PlayPrev == \E gi \in 1..Len(groups) : PlayStep("playPrev", gi, FALSE)

\* playPart, lines 380-382, addressed to a part that the group does not have:
\* _getPartOfGroup throws (line 226)
PlayPartNotFound ==
    \E gi \in 1..Len(groups) :
        CommandThrows("playPart", [groupId |-> groups[gi].id, partId |-> NoSuchId], groups)

\* One group of three parts (endless, two ticks long, one tick long), solo or
\* parallel, enabled or disabled, its second part enabled or disabled.
InitTransport ==
    /\ undoLedger = <<>>
    /\ undoPointer = -1
    /\ execCount = 0
    /\ pending = {}
    /\ lastCall = NoCall
    /\ interleaved = FALSE
    /\ now = 0
    /\ before = NoObservation
    /\ Apart
    /\ \E oneAtATime, groupDisabled, partDisabled \in BOOLEAN :
          groups = <<[DefaultGroup(1) EXCEPT
                        !.oneAtATime = oneAtATime, !.disabled = groupDisabled,
                        !.parts = <<DefaultPart(1, None),
                                    [DefaultPart(2, Some(2)) EXCEPT !.disabled = partDisabled],
                                    DefaultPart(3, Some(1))>>]>>

NextTransport ==
    \/ PlayPart
    \/ PausePart
    \/ StopPart
    \/ StopGroup
    \/ PlayNext
    \/ PlayPrev
    \/ PlayPartNotFound
    \/ Tick

SpecTransport == InitTransport /\ [][NextTransport]_vars

\* C13: stopPart at time now: in a oneAtATime group every entry of playingParts
\* gets stopTime = now; in a parallel group only the targeted part's entry gets
\* stopTime = now and the other entries are unchanged. stopGroup sets stopTime = now
\* on every entry regardless of the policy. No entry is removed by a stop. This is
\* stated of the playingParts that the command writes and hands to _saveUpdates; of
\* what _saveUpdates leaves it says that no stopped entry is without a stopTime.
C13_StopStep ==
    (lastCall'.op = "handler" /\ lastCall'.method \in {"stopPart", "stopGroup"}) =>
        LET arg == lastCall'.arguments[1]
            group == TargetGroup(groups, lastCall')
            old == group.playingParts
            written == before'.staged
            saved == TargetGroup(groups', lastCall').playingParts
            stops(partId) == \/ lastCall'.method = "stopGroup"
                             \/ group.oneAtATime
                             \/ partId = arg.partId
        IN /\ Len(written) = Len(old)
           /\ \A i \in 1..Len(old) :
                 written[i] = IF stops(old[i].partId)
                              THEN [old[i] EXCEPT !.stopTime = Some(now)]
                              ELSE old[i]
           /\ \A e \in Entries(saved) : stops(e.partId) => e.stopTime # None

Between(group, c, q, forward) ==
    LET n == Len(group.parts)
        dist(i) == IF forward THEN (i - c + n) % n ELSE (c - i + n) % n
        far(i) == IF dist(i) = 0 THEN n ELSE dist(i)
    IN {i \in 1..n : far(i) < far(q)}

\* C14: playNext and playPrev leave the playout unchanged when the group is
\* disabled or oneAtATime is false; otherwise they play the cyclically next /
\* previous non-disabled part, so that afterwards that part is the single playing
\* entry, and a disabled part never becomes the playing entry.
C14_StepStep ==
    (lastCall'.op = "handler" /\ lastCall'.method \in {"playNext", "playPrev"}) =>
        LET group == TargetGroup(groups, lastCall')
            saved == TargetGroup(groups', lastCall').playingParts
            playheads == getGroupPlayData(group.preparedPlayData, now)
            enabled == {i \in 1..Len(group.parts) : ~group.parts[i].disabled}
        IN IF group.disabled \/ ~group.oneAtATime
           THEN groups' = groups
           ELSE IF enabled = {}
           THEN saved = <<>>
           ELSE /\ Len(saved) = 1
                /\ before'.staged = saved
                /\ saved[1].startTime = now
                /\ saved[1].pauseTime = None
                /\ saved[1].stopTime = None
                /\ LET q == PartIndex(group, saved[1].partId) IN
                   /\ q \in enabled
                   /\ playheads # <<>> =>
                         Between(group, PartIndex(group, playheads[1].partId), q,
                                 lastCall'.method = "playNext") \cap enabled = {}

C14_StepPlaysNeighbour == [][C14_StepStep]_vars

\* C14 witness: in a solo group whose second part is disabled, while the first part
\* was playing, playNext has just started the third part.
C14_Witness ==
    /\ lastCall.op = "handler"
    /\ lastCall.method = "playNext"
    /\ LET group == TargetGroup(before.groups, lastCall) IN
       /\ group.oneAtATime
       /\ ~group.disabled
       /\ group.parts[2].disabled
       /\ Keys(group.playingParts) = {group.parts[1].id}
       /\ TargetGroup(groups, lastCall).playingParts =
             <<PlayingPart(group.parts[3].id, now, None, None, FALSE)>>

----------------------------------------------------------------------------
(* Claims about what the commands record and what they reject.             *)

\* C15: every command that mutates rundown state, play, pause and stop as well as
\* insert, move, delete and update, produces an inverse and is recorded in the
\* undo/redo ledger: a command that has changed rundown.groups has returned an
\* undoable result and its action is the ledger entry under the pointer.
C15_RecordStep ==
    (lastCall'.op = "handler" /\ groups' # groups) =>
        /\ isUndoable(lastCall'.result)
        /\ undoPointer' = Len(undoLedger') - 1
        /\ undoPointer' >= 0
        /\ undoLedger'[undoPointer' + 1].seq = execCount'

C15_MutationsRecorded == [][C15_RecordStep]_vars

\* C16: transparent-group invariant: in every state reachable by newPart,
\* duplicatePart, deletePart and their undos (insertParts and moveParts too), a
\* transparent group holds at most one part: whenever a second part is added to
\* it, its transparent flag is cleared.
C16_TransparentHoldsOnePart ==
    \A gi \in 1..Len(groups) : groups[gi].transparent => Len(groups[gi].parts) <= 1

----------------------------------------------------------------------------
(* Batch insertion. The parts and groups of a batch come from the caller    *)
(* (clipboard, drag and drop), ids included.                               *)

\* The ids of the parts of all groups of rundown.groups gs
PartIds(gs) ==
    UNION {{gs[gi].parts[pi].id : pi \in 1..Len(gs[gi].parts)} : gi \in 1..Len(gs)}

\* getPositionFromTarget(target, array) for targets 'first', 'last' and after an id
getPositionFromTarget(target, array) ==
    CASE target.type = "first" -> 0
      [] target.type = "last" -> Len(array)
      [] target.type = "after" ->
            IF \E i \in 1..Len(array) : array[i].id = target.id
            THEN CHOOSE i \in 1..Len(array) : array[i].id = target.id
            ELSE Len(array)

After(id) == [type |-> "after", id |-> id]

\* insertParts, lines 765-784: the loop over arg.parts, on rundown.groups gs; it
\* stops where it throws
RECURSIVE insertPartsLoop(_, _, _, _)
insertPartsLoop(gs, gi, parts, nextTarget) ==
    IF parts = <<>> THEN [groups |-> gs, threw |-> FALSE]
    ELSE LET part == Head(parts) IN
         IF part.id \in PartIds(gs) THEN [groups |-> gs, threw |-> TRUE]
         ELSE insertPartsLoop(
                 [gs EXCEPT ![gi].parts =
                     Splice(@, getPositionFromTarget(nextTarget, @), part)],
                 gi, Tail(parts), After(part.id))

\* insertGroups, lines 971-996: the loop over arg.groups
RECURSIVE insertGroupsLoop(_, _, _)
insertGroupsLoop(gs, newGroups, nextTarget) ==
    IF newGroups = <<>> THEN [groups |-> gs, threw |-> FALSE]
    ELSE LET group == Head(newGroups) IN
         IF \/ GroupIndex(gs, group.id) # 0
            \/ \E i \in 1..Len(group.parts) : group.parts[i].id \in PartIds(gs)
         THEN [groups |-> gs, threw |-> TRUE]
         ELSE insertGroupsLoop(Splice(gs, getPositionFromTarget(nextTarget, gs), group),
                               Tail(newGroups), After(group.id))

Ids(array) == [i \in 1..Len(array) |-> array[i].id]

\* The batches a caller sends: one or two items, new ones and copies of what the
\* rundown holds, also the same item twice.
Batches(items) == {<<x>> : x \in items} \cup {<<x, y>> : x, y \in items}

\* _insertPartsAsTransparentGroup, lines 852-871: one new transparent group per part
TransparentGroups(parts) ==
    [i \in 1..Len(parts) |->
        [DefaultGroup(shortID(1 + i)) EXCEPT !.transparent = TRUE, !.parts = <<parts[i]>>]]

\* insertGroups, lines 966-998 and 1018-1036, without resources: whether it threw,
\* the groups it leaves and what its undo function captured
insertGroups(newGroups, target) ==
    LET loop == insertGroupsLoop(groups, newGroups, target) IN
    [threw |-> loop.threw, groups |-> loop.groups,
     undo |-> [kind |-> "insertGroups", originalGroupIds |-> Ids(groups)]]

\* insertParts, lines 725-829, without resources
InsertParts ==
    \E groupId \in {0} \cup {groups[i].id : i \in 1..Len(groups)} :
    \E parts \in Batches({DefaultPart(1, None), DefaultPart(7, Some(1))}) :
    \E type \in {"first", "last"} :
        LET gi == GroupIndex(groups, groupId)
            arg == [groupId |-> groupId, partId |-> 0, ids |-> Ids(parts), target |-> type]
            loop == insertPartsLoop(groups, gi, parts, [type |-> type])
            aside == insertGroups(TransparentGroups(parts),
                                  IF groupId # 0 THEN After(groupId) ELSE [type |-> type])
        IN IF groupId # 0 /\ ~groups[gi].transparent
           THEN IF loop.threw
                THEN CommandThrows("insertParts", arg, loop.groups)
                ELSE Command("insertParts", arg, UndoableResult,
                             [kind |-> "insertParts", groupId |-> groupId,
                              originalPartIds |-> Ids(groups[gi].parts)],
                             loop.groups, <<>>)
           ELSE IF aside.threw
                THEN CommandThrows("insertParts", arg, aside.groups)
                ELSE Command("insertParts", arg, UndoableResult, aside.undo, aside.groups, <<>>)

\* insertGroups, lines 947-1037, for groups of one part
InsertGroups ==
    \E newGroups \in Batches({[DefaultGroup(5) EXCEPT !.parts = <<DefaultPart(6, Some(1))>>],
                              [DefaultGroup(8) EXCEPT !.parts = <<DefaultPart(1, None)>>]}) :
        LET arg == [groupId |-> 0, partId |-> 0, ids |-> Ids(newGroups)]
            inserted == insertGroups(newGroups, [type |-> "last"])
        IN IF inserted.threw
           THEN CommandThrows("insertGroups", arg, inserted.groups)
           ELSE Command("insertGroups", arg, UndoableResult, inserted.undo, inserted.groups, <<>>)

\* A rundown of two groups, as for the structural edits, that takes batches.
NextBatch ==
    \/ InsertParts
    \/ InsertGroups
    \/ UndoCommand

SpecBatch == InitRundown /\ [][NextBatch]_vars

\* C17: IdCollision is all-or-nothing: insertParts / insertGroups with a batch in
\* which some id already exists in the rundown (or repeats within the batch) throws
\* and leaves the rundown exactly as it was before the call, none of the batch's
\* earlier items inserted; consequently no two parts of a rundown share an id.
C17_CollisionStep ==
    (/\ lastCall'.op = "handler"
     /\ lastCall'.method \in {"insertParts", "insertGroups"}
     /\ lastCall'.outcome = "threw") =>
        groups' = groups

C17_CollisionAllOrNothing == [][C17_CollisionStep]_vars

\* The command that has just finished was addressed to a group that the rundown
\* does not have or to a part that the group does not have.
TargetNotFound ==
    LET arg == lastCall'.arguments[1]
        gi == GroupIndex(groups, arg.groupId)
    IN /\ lastCall'.op = "handler"
       /\ \/ arg.groupId # 0 /\ gi = 0
          \/ arg.partId # 0 /\ gi # 0 /\ PartIndex(groups[gi], arg.partId) = 0

\* C18: every command addressed with a nonexistent group or part id (rundown and
\* timeline-object ids are not part of this model) throws and changes no state;
\* this includes stopPart with an unknown partId.
C18_NotFoundStep ==
    TargetNotFound => (lastCall'.outcome = "threw" /\ groups' = groups)

C18_NotFoundThrows == [][C18_NotFoundStep]_vars

----------------------------------------------------------------------------
(* Moving a part.                                                          *)

\* findPartInRundown: the index of the group that holds the part, 0 when none does
FindPartGroup(gs, partId) ==
    IF \E gi \in 1..Len(gs) : PartIndex(gs[gi], partId) # 0
    THEN CHOOSE gi \in 1..Len(gs) : PartIndex(gs[gi], partId) # 0
    ELSE 0

\* The entry that moveParts writes for a moved part that plays in a solo group,
\* lines 1294-1299
MovedEntry(partId, playhead) ==
    PlayingPart(partId, playhead.partStartTime, playhead.partPauseTime, None,
                playhead.fromSchedule)

\* Transplants that never hands the playout over
TransplantsNever(movedPartIsPlaying, groupIsPlaying) == FALSE

\* Whether moveParts hands the playout of the source group to the target group,
\* line 1306
Transplants(movedPartIsPlaying, groupIsPlaying) == movedPartIsPlaying /\ ~groupIsPlaying

\* moveParts, lines 1177-1329, for one part: the source group and the target group
\* as they are handed to _saveUpdates, and rundown.groups with both in place
Moved(gs, partId, toGroupId, target, newGroupId, t) ==
    LET fi == FindPartGroup(gs, partId)
        fromGroup == gs[fi]
        part == fromGroup.parts[PartIndex(fromGroup, partId)]
        isTransparentGroupMove == fromGroup.transparent /\ toGroupId = 0
        madeNewTransparentGroup == toGroupId = 0 /\ ~fromGroup.transparent
        toGroup == IF toGroupId # 0 THEN gs[GroupIndex(gs, toGroupId)]
                   ELSE IF isTransparentGroupMove THEN fromGroup
                   ELSE [DefaultGroup(newGroupId) EXCEPT !.transparent = TRUE, !.parts = <<part>>]
        fromPlayhead == getGroupPlayData(fromGroup.preparedPlayData, t)
        toPlayhead == getGroupPlayData(toGroup.preparedPlayData, t)
        movedPartIsPlaying == PlayheadOf(fromPlayhead, partId)
        transplants == Transplants(movedPartIsPlaying # <<>>, toPlayhead # <<>>)
        without == [fromGroup EXCEPT !.parts = WithoutId(@, partId)]
        left == IF fromGroup.id # toGroup.id /\ transplants
                THEN [without EXCEPT !.playingParts = <<>>]
                ELSE without
        within == LET placed == [without EXCEPT !.parts =
                                    Splice(@, getPositionFromTarget(target, @), part)]
                      updated == updateGroupPlayingParts(placed, t)
                  IN IF movedPartIsPlaying # <<>> /\ updated.oneAtATime
                     THEN [updated EXCEPT !.playingParts =
                              <<MovedEntry(partId, movedPartIsPlaying[1])>>]
                     ELSE updated
        across == LET placed == IF madeNewTransparentGroup THEN toGroup
                                ELSE [toGroup EXCEPT !.parts =
                                         Splice(@, getPositionFromTarget(target, @), part)]
                  IN IF transplants
                     THEN [placed EXCEPT !.playingParts = fromGroup.playingParts]
                     ELSE placed
        arrived == IF isTransparentGroupMove THEN fromGroup
                   ELSE IF fromGroup.id = toGroup.id THEN within
                   ELSE across
        savedFrom == _saveUpdates(left, t, FALSE)
        savedTo == _saveUpdates(arrived, t, FALSE)
        leftover == left.transparent /\ left.parts = <<>>
        rest == IF isTransparentGroupMove \/ (fromGroup.id # toGroup.id /\ leftover)
                THEN WithoutId(gs, fromGroup.id)
                ELSE IF fromGroup.id = toGroup.id THEN [gs EXCEPT ![fi] = savedTo]
                ELSE [gs EXCEPT ![fi] = savedFrom]
        placedGroups ==
            IF isTransparentGroupMove \/ madeNewTransparentGroup
            THEN Splice(rest, getPositionFromTarget(target, rest), savedTo)
            ELSE IF fromGroup.id = toGroup.id THEN rest
            ELSE [rest EXCEPT ![GroupIndex(rest, toGroup.id)] = savedTo]
    IN [groups |-> placedGroups,
        staged |-> arrived.playingParts,
        intoTransparent |-> ~madeNewTransparentGroup /\ toGroup.id # fromGroup.id
                           /\ toGroup.transparent,
        intoPlaying |-> movedPartIsPlaying # <<>> /\ toGroup.id # fromGroup.id
                        /\ toPlayhead # <<>>]

\* moveParts, lines 1214-1221 and 1331-1344: it throws or commits what it moved.
\* allowMovingPartIntoGroup (lib/util) may or may not allow a playing part into a
\* group that is playing.
MoveCommits(arg, moved) ==
    \E allow \in IF moved.intoPlaying THEN BOOLEAN ELSE {TRUE} :
        IF moved.intoTransparent \/ ~allow
        THEN CommandThrows("moveParts", arg, groups)
        ELSE Command("moveParts", arg, UndoableResult,
                     [kind |-> "moveParts", originalGroups |-> groups],
                     moved.groups, moved.staged)

\* moveParts, lines 1161-1345, for one part of this rundown
MoveParts ==
    \E partId \in PartIds(groups) :
    \E toGroupId \in {0} \cup {groups[i].id : i \in 1..Len(groups)} :
    \E type \in {"first", "last"} :
        LET arg == [groupId |-> groups[FindPartGroup(groups, partId)].id, partId |-> partId,
                    toGroupId |-> toGroupId, target |-> type]
        IN MoveCommits(arg, Moved(groups, partId, toGroupId, [type |-> type], shortID(2), now))

\* Two groups of parts without a loop (endless and two ticks long; endless), the
\* first solo or parallel, after a first command, playPart at time 0, has started
\* one of the parts.
InitMove ==
    /\ undoLedger = <<>>
    /\ undoPointer = -1
    /\ execCount = 1
    /\ pending = {}
    /\ lastCall = NoCall
    /\ interleaved = FALSE
    /\ now = 0
    /\ before = NoObservation
    /\ Apart
    /\ \E oneAtATime \in BOOLEAN : \E partId \in 1..3 :
          LET loaded == <<[DefaultGroup(1) EXCEPT
                             !.oneAtATime = oneAtATime,
                             !.parts = <<DefaultPart(1, None), DefaultPart(2, Some(2))>>],
                          [DefaultGroup(2) EXCEPT !.parts = <<DefaultPart(3, None)>>]>>
              gi == FindPartGroup(loaded, partId)
              part == loaded[gi].parts[PartIndex(loaded[gi], partId)]
          IN groups = [loaded EXCEPT ![gi] = _saveUpdates(_playPart(@, part, 0), 0, FALSE)]

NextMove ==
    \/ PlayPart
    \/ PausePart
    \/ MoveParts
    \/ Tick

SpecMove == InitMove /\ [][NextMove]_vars

\* moveParts has just moved a part that was playing or paused.
MovedPlayingPart ==
    /\ lastCall'.op = "handler"
    /\ lastCall'.method = "moveParts"
    /\ lastCall'.outcome = "returned"
    /\ TargetPlayhead(groups, lastCall', now) # <<>>

\* The entry of the part that the last command was aimed at, in the group that
\* holds the part in rundown.groups gs, as an optional value.
OwnEntry(gs, call) ==
    LET partId == call.arguments[1].partId
        gi == FindPartGroup(gs, partId)
    IN IF gi = 0 THEN None ELSE EntryOf(gs[gi].playingParts, partId)

\* C19 as stated: a playing or paused part that is moved (within its group or to
\* another group, whether or not the target group is already playing) afterwards
\* has a playingParts entry in its owning group with the same startTime and
\* pauseTime as before the move.
C19_MoveStepAsStated ==
    MovedPlayingPart =>
        LET old == OwnEntry(groups, lastCall')
            new == OwnEntry(groups', lastCall')
        IN /\ old # None
           /\ new # None
           /\ new[1].startTime = old[1].startTime
           /\ new[1].pauseTime = old[1].pauseTime

MovedIntoPlayingGroup ==
    LET arg == lastCall'.arguments[1]
        gi == GroupIndex(groups, arg.toGroupId)
    IN /\ arg.toGroupId # 0
       /\ arg.toGroupId # arg.groupId
       /\ getGroupPlayData(groups[gi].preparedPlayData, now) # <<>>

\* C19, amended: a playing or paused part that is moved within its group, or to
\* another group that is not playing, afterwards has a playingParts entry in its
\* owning group with the same startTime and pauseTime as before the move.
C19_MoveStep ==
    (MovedPlayingPart /\ ~MovedIntoPlayingGroup) =>
        LET old == OwnEntry(groups, lastCall')
            new == OwnEntry(groups', lastCall')
        IN /\ old # None
           /\ new # None
           /\ new[1].startTime = old[1].startTime
           /\ new[1].pauseTime = old[1].pauseTime
           /\ new[1].stopTime = None

----------------------------------------------------------------------------
(* Deleting what is playing.                                               *)

\* The command that just finished deleted a part or a group that was playing when
\* the command was invoked.
DeletedPlaying ==
    /\ lastCall'.op = "handler"
    /\ lastCall'.method \in {"deletePart", "deleteGroup"}
    /\ lastCall'.result = UndoableResult
    /\ LET arg == lastCall'.arguments[1]
           playingParts == TargetGroup(groups, lastCall').playingParts
       IN IF lastCall'.method = "deletePart"
          THEN \E i \in Live(playingParts) : playingParts[i].partId = arg.partId
          ELSE Live(playingParts) # {}

\* C20: deleting a part or a group that is playing first forces a stop: before the
\* part or the group is removed from the rundown, its playout is stopped or cleared
\* and updateTimeline is called for the group in that stopped state, for deleteGroup
\* and for deletePart alike.
C20_DeleteStep ==
    DeletedPlaying =>
        LET arg == lastCall'.arguments[1]
            flushed == before'.flushed
        IN /\ flushed.called
           /\ flushed.inRundown
           /\ IF lastCall'.method = "deletePart"
              THEN /\ arg.partId \in flushed.partIds
                   /\ \A i \in Live(flushed.playingParts) :
                         flushed.playingParts[i].partId # arg.partId
              ELSE Live(flushed.playingParts) = {}

C20_DeleteForcesStop == [][C20_DeleteStep]_vars


----------------------------------------------------------------------------
(* Edits of a part, and whether the prepared play data follow them.        *)

\* The attributes of a part that updatePart treats as affecting playout (line 899)
AffectsPlayout == {"loop", "disabled"}

\* updatePart, lines 883-913, for a patch {[attribute]: value} of one flag
UpdatePart ==
    \E gi \in 1..Len(groups) : \E pi \in 1..Len(groups[gi].parts) :
    \E attribute \in AffectsPlayout \cup {"locked"} :
        LET group == groups[gi]
            part == group.parts[pi]
            arg == [groupId |-> group.id, partId |-> part.id, attribute |-> attribute,
                    value |-> ~part[attribute]]
            affectsPlayout == attribute \in AffectsPlayout
            updated == IF affectsPlayout THEN updateGroupPlayingParts(group, now) ELSE group
            assigned == [updated EXCEPT !.parts[pi][attribute] = arg.value]
        IN IF group.locked \/ (part.locked /\ attribute # "locked")
           THEN Command("updatePart", arg, Undefined, None, groups, <<>>)
           ELSE Command("updatePart", arg, UndoableResult,
                        [kind |-> "updatePart", groupId |-> group.id, partId |-> part.id,
                         partPreChange |-> part],
                        [groups EXCEPT ![gi] = IF affectsPlayout
                                               THEN _saveUpdates(assigned, now, FALSE)
                                               ELSE assigned],
                        updated.playingParts)

NextEdit ==
    \/ PlayPart
    \/ UpdateGroup
    \/ NewPart
    \/ UpdatePart
    \/ UndoCommand
    \/ Tick

SpecEdit == InitRundown /\ [][NextEdit]_vars

\* What of a group can affect its playout, apart from playingParts: its policy
\* flags and its parts with their flags and durations, in order.
PlayoutInputs(group) ==
    [disabled |-> group.disabled, oneAtATime |-> group.oneAtATime, autoPlay |-> group.autoPlay,
     loop |-> group.loop,
     parts |-> [i \in 1..Len(group.parts) |->
                  [id |-> group.parts[i].id, disabled |-> group.parts[i].disabled,
                   loop |-> group.parts[i].loop, duration |-> group.parts[i].duration]]]

\* The group's preparedPlayData is what updateTimeline returns for the group as it
\* is now, with the playingParts it had at some point of the step.
Prepared(group, candidates) ==
    \E playingParts \in candidates :
        group.preparedPlayData = updateTimeline([group EXCEPT !.playingParts = playingParts])

\* C21: after every command or undo that changes something able to affect a group's
\* playout (its parts list, disabled / loop / duration of a part, the group's policy
\* flags or its playingParts), updateTimeline has been called for that group and its
\* preparedPlayData holds the returned value before the command returns.
C21_PreparedStep ==
    lastCall'.op \in {"handler", "undo"} =>
        \A gi \in 1..Len(groups') :
            LET group == groups'[gi]
                old == GroupIndex(groups, group.id)
            IN (old # 0 /\ (PlayoutInputs(groups[old]) # PlayoutInputs(group)
                            \/ groups[old].playingParts # group.playingParts)) =>
                    Prepared(group, {groups[old].playingParts, group.playingParts, before'.staged})

C21_PreparedDataFollowEdits == [][C21_PreparedStep]_vars


----------------------------------------------------------------------------
(* Timeline materializer: getTimelineForGroup (src/unnamed/part_001).      *)
(* Strings are sequences of characters, so that suffixing an id and        *)
(* replacing an id inside a reference are what they are in the source.     *)
(* A timeline object keeps its id, enable, children and keyframes; layer,  *)
(* content and classes play no part in ids, references or times.           *)

Digit == <<"0", "1", "2", "3", "4", "5", "6", "7", "8", "9">>

\* `${count}`
RECURSIVE Decimal(_)
Decimal(n) ==
    IF n < 10 THEN <<Digit[n + 1]>> ELSE Decimal(n \div 10) \o <<Digit[(n % 10) + 1]>>

\* Values of an enable property (superfly-timeline Expression | undefined)
Absent == [type |-> "undefined"]
Infinity == [type |-> "Infinity"]
Num(n) == [type |-> "number", value |-> n]
Str(s) == [type |-> "string", value |-> s]
Tree(l, o, r) == [type |-> "expression", l |-> l, o |-> o, r |-> r]

Enable(start, duration, repeating) ==
    [start |-> start, end |-> Absent, duration |-> duration, repeating |-> repeating,
     while |-> Absent]

TimelineObject(id, enable, children, keyframes) ==
    [id |-> id, enable |-> enable, children |-> children, keyframes |-> keyframes]

\* pauseLastFrame, line 20
pauseLastFrame == TRUE

\* idCount.get(id) || 0
Count(idCount, id) == IF id \in DOMAIN idCount THEN idCount[id] ELSE 0

\* idCount.set(id, count + 1)
Counted(idCount, id) ==
    [k \in DOMAIN idCount \cup {id} |-> IF k = id THEN Count(idCount, id) + 1 ELSE idCount[k]]

\* makeUniqueId, lines 28-32: the new idCount and the id returned
makeUniqueId(idCount, id) ==
    [idCount |-> Counted(idCount, id), id |-> id \o <<"_">> \o Decimal(Count(idCount, id))]

\* getUniqueId, lines 33-39
getUniqueId(idCount, id) ==
    [idCount |-> Counted(idCount, id),
     id |-> IF Count(idCount, id) = 0 THEN id
            ELSE id \o <<"_">> \o Decimal(Count(idCount, id))]

\* changedIds.set(oldId, newId) on a Map, which keeps the order of first insertion
MapSet(changedIds, oldId, newId) ==
    IF \E i \in 1..Len(changedIds) : changedIds[i].oldId = oldId
    THEN [i \in 1..Len(changedIds) |->
             IF changedIds[i].oldId = oldId THEN [oldId |-> oldId, newId |-> newId]
             ELSE changedIds[i]]
    ELSE Append(changedIds, [oldId |-> oldId, newId |-> newId])

\* str.replace(new RegExp(oldId, 'g'), newId), for ids without regular-expression
\* metacharacters: every occurrence of oldId, found from left to right
RECURSIVE ReplaceAll(_, _, _)
ReplaceAll(str, oldId, newId) ==
    IF str = <<>> THEN <<>>
    ELSE IF /\ oldId # <<>>
            /\ Len(str) >= Len(oldId)
            /\ SubSeq(str, 1, Len(oldId)) = oldId
    THEN newId \o ReplaceAll(SubSeq(str, Len(oldId) + 1, Len(str)), oldId, newId)
    ELSE <<Head(str)>> \o ReplaceAll(Tail(str), oldId, newId)

\* lines 349-351: one replace per entry of changedIds, in the order of the map
RECURSIVE ReplaceEach(_, _)
ReplaceEach(changedIds, str) ==
    IF changedIds = <<>> THEN str
    ELSE ReplaceEach(Tail(changedIds),
                     ReplaceAll(str, changedIds[1].oldId, changedIds[1].newId))

\* updateTimelineExpression, lines 342-359
RECURSIVE updateTimelineExpression(_, _)
updateTimelineExpression(changedIds, expr) ==
    CASE expr.type = "string" -> Str(ReplaceEach(changedIds, expr.value))
      [] expr.type = "expression" ->
            Tree(updateTimelineExpression(changedIds, expr.l), expr.o,
                 updateTimelineExpression(changedIds, expr.r))
      [] OTHER -> expr

\* updateTimelineEnable, lines 329-341, for the one enable of an object or keyframe
updateTimelineEnable(changedIds, enable) ==
    [start |-> updateTimelineExpression(changedIds, enable.start),
     end |-> updateTimelineExpression(changedIds, enable.end),
     duration |-> IF ~pauseLastFrame THEN updateTimelineExpression(changedIds, enable.duration)
                  ELSE Infinity,
     repeating |-> updateTimelineExpression(changedIds, enable.repeating),
     while |-> updateTimelineExpression(changedIds, enable.while)]

\* updateTimelineReferences, lines 314-327
RECURSIVE updateTimelineReferences(_, _)
updateTimelineReferences(changedIds, obj) ==
    [id |-> obj.id,
     enable |-> updateTimelineEnable(changedIds, obj.enable),
     children |-> [i \in 1..Len(obj.children) |->
                     updateTimelineReferences(changedIds, obj.children[i])],
     keyframes |-> [i \in 1..Len(obj.keyframes) |->
                      [obj.keyframes[i] EXCEPT
                          !.enable = updateTimelineEnable(changedIds, @)]]]


\* The ids are changed with an accumulator acc = [idCount, changedIds, out]: the two
\* maps as they are after the objects handled so far, and the changed objects.

\* lines 310-312: the map entry is set under the id the keyframe has after the change
KeyframeChanged(acc, keyframe, unique) ==
    [idCount |-> unique.idCount,
     changedIds |-> MapSet(acc.changedIds, unique.id, unique.id),
     out |-> Append(acc.out, [keyframe EXCEPT !.id = unique.id])]

\* changeTimelineIdInnerKeyframe, lines 305-313
changeTimelineIdInnerKeyframe(acc, keyframe) ==
    KeyframeChanged(acc, keyframe, getUniqueId(acc.idCount, keyframe.id))

\* lines 299-303
RECURSIVE changeKeyframes(_, _)
changeKeyframes(acc, keyframes) ==
    IF keyframes = <<>> THEN acc
    ELSE changeKeyframes(changeTimelineIdInnerKeyframe(acc, keyframes[1]), Tail(keyframes))

\* changeTimelineIdInnerObj, lines 285-304: the id (290-292), then the children
\* (294-298), then the keyframes (299-303)
RECURSIVE changeTimelineIdInnerObj(_, _)
RECURSIVE changeChildren(_, _)
ObjChanged(acc, obj, id, children, keyframes) ==
    [idCount |-> keyframes.idCount,
     changedIds |-> keyframes.changedIds,
     out |-> Append(acc.out, TimelineObject(id, obj.enable, children, keyframes.out))]

ObjKeyframes(acc, obj, id, children) ==
    ObjChanged(acc, obj, id, children.out,
               changeKeyframes([children EXCEPT !.out = <<>>], obj.keyframes))

ObjChildren(acc, obj, unique) ==
    ObjKeyframes(acc, obj, unique.id,
                 changeChildren([idCount |-> unique.idCount,
                                 changedIds |-> MapSet(acc.changedIds, obj.id, unique.id),
                                 out |-> <<>>],
                                obj.children))

changeTimelineIdInnerObj(acc, obj) == ObjChildren(acc, obj, getUniqueId(acc.idCount, obj.id))

changeChildren(acc, children) ==
    IF children = <<>> THEN acc
    ELSE changeChildren(changeTimelineIdInnerObj(acc, children[1]), Tail(children))

\* lines 282 and 222: the references of the changed object are updated and the
\* object is pushed onto the children of the section content object
ReferencesUpdated(content, changed) ==
    [idCount |-> changed.idCount,
     out |-> Append(content.out, updateTimelineReferences(changed.changedIds, changed.out[1]))]

\* changeTimelineId(obj, (id) => getUniqueId(id)), lines 276-283 and 221, with
\* content = [idCount, out] of the section content
changeTimelineId(content, idCount, obj) ==
    ReferencesUpdated(content,
                      changeTimelineIdInnerObj([idCount |-> idCount, changedIds |-> <<>>,
                                                out |-> <<>>], obj))

\* modifyTimelineObjectForPlayout is imported from ./TimelineObj; it is taken to
\* leave the id, the enable and the keyframes of the cloned object as they are.
modifyTimelineObjectForPlayout(partTimelineObj) == partTimelineObj

\* partToTimelineObj that keeps duration and repeating of a paused part
partToTimelineObjKeepsEnable(objId, part, startTime, pauseTime) ==
    TimelineObject(objId,
                   [start |-> Num(startTime), end |-> Absent, while |-> Absent,
                    duration |-> part.duration,
                    repeating |-> IF part.loop THEN part.duration ELSE Absent],
                   [i \in 1..Len(part.timeline) |->
                       modifyTimelineObjectForPlayout(part.timeline[i])],
                   <<>>)

\* partToTimelineObj, lines 232-275, without customPartContent
partToTimelineObj(objId, part, startTime, pauseTime) ==
    TimelineObject(objId,
                   [start |-> Num(startTime), end |-> Absent, while |-> Absent,
                    duration |-> IF pauseTime # None THEN Absent ELSE part.duration,
                    repeating |-> IF pauseTime # None \/ ~part.loop THEN Absent
                                  ELSE part.duration],
                   [i \in 1..Len(part.timeline) |->
                       modifyTimelineObjectForPlayout(part.timeline[i])],
                   <<>>)

\* lines 211-222 for one part of the section, with the id that makeUniqueId made
PartMade(content, section, playingPart, made) ==
    changeTimelineId(content, made.idCount,
                     partToTimelineObj(made.id, playingPart.part,
                                       playingPart.startTime - section.startTime,
                                       section.pauseTime))

\* lines 209-223: the loop over section.parts
RECURSIVE sectionParts(_, _, _)
sectionParts(content, section, parts) ==
    \* the second test is never true: it has TLC evaluate the timeline made so far
    \* at each part instead of all at once at the end
    IF parts = <<>> \/ Len(content.out) < 0 THEN content
    ELSE sectionParts(PartMade(content, section, parts[1],
                               makeUniqueId(content.idCount, parts[1].part.id)),
                      section, Tail(parts))

\* lines 170-207 and 225-229: the section object around the section content
SectionMade(section, id, content) ==
    [idCount |-> content.idCount,
     out |-> IF Len(content.out) > 0
             THEN <<TimelineObject(<<"section_">> \o id,
                                   Enable(Num(section.startTime), Absent, Absent),
                                   <<TimelineObject(<<"section_content_">> \o id,
                                                    Enable(Num(0), Absent,
                                                           IF section.repeating
                                                           THEN section.duration ELSE Absent),
                                                    content.out, <<>>)>>,
                                   <<>>)>>
             ELSE <<>>]

\* sectionToTimelineObj, lines 159-230: the new idCount and the timeline returned
sectionToTimelineObj(idCount, section, id) ==
    SectionMade(section, id, sectionParts([idCount |-> idCount, out |-> <<>>], section,
                                          section.parts))

\* lines 57-67: the timeline of a section is pushed onto the children
Pushed(children, timeline) ==
    [idCount |-> timeline.idCount, out |-> children.out \o timeline.out]

\* lines 48-68, the ids and children: the sections of a 'single' timeline from
\* index i (counted from 0) on
RECURSIVE singleSections(_, _, _, _)
singleSections(children, groupId, sections, i) ==
    IF i >= Len(sections) \/ Len(children.out) < 0 THEN children
    ELSE singleSections(Pushed(children,
                               sectionToTimelineObj(children.idCount, sections[i + 1],
                                                    groupId \o <<"_">> \o Decimal(i))),
                        groupId, sections, i + 1)

\* lines 45 and 50: Math.min over the sections; Infinity (None) without sections
firstStartOf(sections) ==
    IF sections = <<>> THEN None
    ELSE LET starts == {sections[i].startTime : i \in 1..Len(sections)} IN
         Some(CHOOSE s \in starts : \A other \in starts : s <= other)

\* lines 46 and 51-55: lastEnd after the sections, None for Infinity
RECURSIVE lastEndOf(_, _)
lastEndOf(sections, lastEnd) ==
    IF sections = <<>> THEN lastEnd
    ELSE LET section == sections[1]
             end == IF section.endTime = None \/ section.endTime = Some(0)
                    THEN None ELSE section.endTime
         IN lastEndOf(Tail(sections),
                      IF section.stopTime # None \/ ~pauseLastFrame
                      THEN IF end = None \/ lastEnd = None THEN None
                           ELSE IF end[1] > lastEnd[1] THEN end ELSE lastEnd
                      ELSE None)

\* Rebased that leaves the absolute time
NotRebased(value, firstStart) == value

\* lines 90-91: a numeric value taken relative to the group
Rebased(value, firstStart) ==
    IF value.type = "number" THEN Num(value.value - firstStart) ELSE value

\* lines 70-96: the group object around the children, none without children
SingleMade(groupId, firstStart, lastEnd, children) ==
    IF Len(children) > 0
    THEN <<TimelineObject(<<"group_">> \o groupId,
                          [Enable(Num(firstStart[1]), Absent, Absent) EXCEPT
                              !.end = IF lastEnd = None THEN Absent ELSE Num(lastEnd[1])],
                          [i \in 1..Len(children) |->
                              [children[i] EXCEPT
                                  !.enable.start = Rebased(@, firstStart[1]),
                                  !.enable.end = Rebased(@, firstStart[1])]],
                          <<>>)>>
    ELSE <<>>

\* lines 116-145: the group object of one section of a part, kept when it has children
GroupPartPushed(children, id, timeline) ==
    [idCount |-> timeline.idCount,
     out |-> IF Len(timeline.out) > 0
             THEN Append(children.out,
                         TimelineObject(<<"group_">> \o id, Enable(Num(0), Absent, Absent),
                                        timeline.out, <<>>))
             ELSE children.out]

\* lines 113-146: the sections of one part of a 'multi' timeline from index i on
RECURSIVE multiSections(_, _, _, _)
multiSections(children, id, sections, i) ==
    IF i >= Len(sections) \/ Len(children.out) < 0 THEN children
    ELSE multiSections(GroupPartPushed(children, id \o <<"_">> \o Decimal(i),
                                       sectionToTimelineObj(children.idCount, sections[i + 1],
                                                            id \o <<"_">> \o Decimal(i))),
                       id, sections, i + 1)

\* line 112: the loop over Object.entries(prepared.sections)
RECURSIVE multiEntries(_, _, _)
multiEntries(children, groupId, entries) ==
    IF entries = <<>> THEN children
    ELSE multiEntries(multiSections(children, groupId \o <<"_">> \o entries[1].partId,
                                    entries[1].sections, 0),
                      groupId, Tail(entries))

\* lines 98-111 and 148-150: the group object around the children, none without
MultiMade(groupId, children) ==
    IF Len(children) > 0
    THEN <<TimelineObject(<<"group_">> \o groupId, Enable(Num(0), Absent, Absent), children, <<>>)>>
    ELSE <<>>

\* getTimelineForGroup, lines 22-158, without customPartContent: None for null,
\* else the timeline
getTimelineForGroup(group, prepared) ==
    IF prepared = None THEN None
    ELSE IF prepared[1].type = "single"
    THEN Some(SingleMade(group.id, firstStartOf(prepared[1].sections),
                         lastEndOf(prepared[1].sections, Some(0)),
                         singleSections([idCount |-> <<>>, out |-> <<>>], group.id,
                                        prepared[1].sections, 0).out))
    ELSE Some(MultiMade(group.id,
                        multiEntries([idCount |-> <<>>, out |-> <<>>], group.id,
                                     prepared[1].sections).out))

----------------------------------------------------------------------------
(* Calls of getTimelineForGroup on prepared play data of one group.        *)

\* Sections of a prepared timeline, and occurrences of the part in a section.
MaxSections == 2
MaxOccurrences == 2

\* Ids of the timeline objects of a part: one is a prefix of another, one ends in
\* _<number>.
ObjectIds == {<<"a">>, <<"a", "b">>, <<"a", "_", "1">>}

\* `#${id}.end` and the like
Ref(id, point) == Str(<<"#">> \o id \o <<point>>)

Leaf(id, start, keyframes) == TimelineObject(id, Enable(start, Absent, Absent), <<>>, keyframes)

\* part.timeline[i].obj of the part: no object, one object with or without a keyframe
\* that refers to it, or two objects of which the second starts at the end of the
\* first, given as a string or as an expression tree.
PartTimelines ==
    {<<>>}
    \cup {<<Leaf(id, Num(0), <<>>)>> : id \in ObjectIds}
    \cup {<<Leaf(id, Num(0), <<[id |-> <<"k">>,
                                enable |-> Enable(Ref(id, ".start"), Absent, Absent)]>>)>> :
             id \in ObjectIds}
    \cup {<<Leaf(pair[1], Num(0), <<>>), Leaf(pair[2], Ref(pair[1], ".end"), <<>>)>> :
             pair \in {p \in ObjectIds \X ObjectIds : p[1] # p[2]}}
    \cup {<<Leaf(pair[1], Num(0), <<>>),
            Leaf(pair[2], Tree(Ref(pair[1], ".end"), "+", Num(1)), <<>>)>> :
             pair \in {p \in ObjectIds \X ObjectIds : p[1] # p[2]}}

\* The part of the group: two ticks long, looping or not.
MaterializedParts ==
    {[id |-> <<"p">>, loop |-> loop, duration |-> Num(2), timeline |-> timeline] :
        loop \in BOOLEAN, timeline \in PartTimelines}

\* A section (GroupPreparedPlayDataSection) that plays the part n times in a row
\* from startTime on: playing, paused, or stopped a tick after its start.
PreparedSection(part, startTime, mode, n) ==
    [startTime |-> startTime,
     endTime |-> IF mode = "stopped" THEN Some(startTime + 1) ELSE None,
     pauseTime |-> IF mode = "paused" THEN Some(1) ELSE None,
     stopTime |-> IF mode = "stopped" THEN Some(startTime + 1) ELSE None,
     repeating |-> mode = "playing" /\ part.loop,
     duration |-> Num(2 * n),
     parts |-> [k \in 1..n |-> [part |-> part, startTime |-> startTime + 2 * (k - 1)]]]

PreparedSections(part) ==
    LET sections == {PreparedSection(part, 1, "playing", 0)}
                    \cup {PreparedSection(part, startTime, "playing", n) :
                             startTime \in {1, 3}, n \in 1..MaxOccurrences}
                    \cup {PreparedSection(part, startTime, mode, 1) :
                             startTime \in {1, 3}, mode \in {"paused", "stopped"}}
    IN UNION {[1..len -> sections] : len \in 0..MaxSections}

\* GroupPreparedPlayData | null for the part
PreparedInputs(part) ==
    {None}
    \cup {Some([type |-> "single", sections |-> sections]) : sections \in PreparedSections(part)}
    \cup {Some([type |-> "multi", sections |-> <<>>])}
    \cup {Some([type |-> "multi", sections |-> <<[partId |-> part.id, sections |-> sections]>>]) :
             sections \in PreparedSections(part)}

InitMaterializer ==
    /\ undoLedger = <<>>
    /\ undoPointer = -1
    /\ execCount = 0
    /\ pending = {}
    /\ lastCall = NoCall
    /\ interleaved = FALSE
    /\ groups = <<>>
    /\ now = 0
    /\ before = NoObservation
    /\ session = None
    /\ project = None
    /\ \E part \in MaterializedParts : \E prepared \in PreparedInputs(part) :
          materialized = [group |-> [id |-> <<"g">>], prepared |-> prepared, returned |-> None]

\* A call of getTimelineForGroup(group, prepared, undefined)
GetTimelineForGroup ==
    /\ materialized.returned = None
    /\ materialized' = [materialized EXCEPT
                           !.returned = Some(getTimelineForGroup(materialized.group,
                                                                 materialized.prepared))]
    /\ UNCHANGED <<undoLedger, undoPointer, execCount, pending, lastCall, interleaved, groups,
                   now, before, session, project>>

NextMaterializer == GetTimelineForGroup

SpecMaterializer == InitMaterializer /\ [][NextMaterializer]_vars


----------------------------------------------------------------------------
(* Claims about the materialized timeline.                                 *)

\* The ids of the objects of a timeline, children included, in document order.
RECURSIVE ObjectIdsOf(_)
ObjectIdsOf(timeline) ==
    IF timeline = <<>> THEN <<>>
    ELSE <<timeline[1].id>> \o ObjectIdsOf(timeline[1].children) \o ObjectIdsOf(Tail(timeline))

\* getTimelineForGroup has returned a timeline.
ReturnedTimeline == materialized.returned # None /\ materialized.returned[1] # None

\* C22: ID-rewrite uniqueness: for prepared play data in which the same part occurs N
\* times, and for any original object ids (ids that already end in _<number> too),
\* the timeline returned by getTimelineForGroup holds no two objects with the same
\* id.
C22_UniqueIds ==
    ReturnedTimeline =>
        LET ids == ObjectIdsOf(materialized.returned[1][1])
        IN \A i, j \in 1..Len(ids) : ids[i] = ids[j] => i = j


\* The objects made of the parts, in the order in which they were made: the children
\* of the section content objects.
RECURSIVE PartObjectsOf(_)
PartObjectsOf(timeline) ==
    IF timeline = <<>> THEN <<>>
    ELSE (IF Head(timeline[1].id) = "section_content_" THEN timeline[1].children
          ELSE PartObjectsOf(timeline[1].children))
         \o PartObjectsOf(Tail(timeline))

RECURSIVE PlayingPartsOf(_)
PlayingPartsOf(sections) ==
    IF sections = <<>> THEN <<>> ELSE sections[1].parts \o PlayingPartsOf(Tail(sections))

\* The parts that the prepared play data play, in the order of the sections.
PreparedParts(prepared) ==
    IF prepared[1].type = "single" THEN PlayingPartsOf(prepared[1].sections)
    ELSE IF prepared[1].sections = <<>> THEN <<>>
    ELSE PlayingPartsOf(prepared[1].sections[1].sections)

\* The expression with every reference `#${id}...` to an object of the part's
\* timeline naming the id that this object has in the expansion.
RECURSIVE Repointed(_, _, _)
Repointed(expr, timeline, expansion) ==
    CASE expr.type = "string" ->
            LET id == SubSeq(expr.value, 2, Len(expr.value) - 1)
                k == CHOOSE i \in 1..Len(timeline) : timeline[i].id = id
            IN Str(<<"#">> \o expansion[k].id \o <<expr.value[Len(expr.value)]>>)
      [] expr.type = "expression" ->
            Tree(Repointed(expr.l, timeline, expansion), expr.o,
                 Repointed(expr.r, timeline, expansion))
      [] OTHER -> expr

\* C23: reference patching: after ID rewriting, every symbolic reference in an enable
\* expression (a string or a tree of left/right expressions, on objects and on
\* keyframes) that named object X of a part before rewriting names the rewritten id
\* of X in the same expansion, also when one original id is a substring of another
\* or a rewritten id equals another original id.
C23_ReferencesPatched ==
    ReturnedTimeline =>
        LET made == PartObjectsOf(materialized.returned[1][1])
            parts == PreparedParts(materialized.prepared)
        IN \A j \in 1..Len(made) :
              LET timeline == parts[j].part.timeline
                  expansion == made[j].children
              IN \A i \in 1..Len(timeline) :
                    /\ expansion[i].enable.start =
                          Repointed(timeline[i].enable.start, timeline, expansion)
                    /\ \A k \in 1..Len(timeline[i].keyframes) :
                          expansion[i].keyframes[k].enable.start =
                             Repointed(timeline[i].keyframes[k].enable.start, timeline, expansion)


RECURSIVE PausesOf(_)
PausesOf(sections) ==
    IF sections = <<>> THEN <<>>
    ELSE [k \in 1..Len(sections[1].parts) |-> sections[1].pauseTime # None]
         \o PausesOf(Tail(sections))

\* Whether the section is paused, for each part that the prepared play data play.
PreparedPauses(prepared) ==
    IF prepared[1].type = "single" THEN PausesOf(prepared[1].sections)
    ELSE IF prepared[1].sections = <<>> THEN <<>>
    ELSE PausesOf(prepared[1].sections[1].sections)

C25_NullWhenNothingToPlay ==
    (/\ materialized.returned # None
     /\ (materialized.prepared = None \/ PreparedParts(materialized.prepared) = <<>>)) =>
        materialized.returned[1] = None


\* A 'single' timeline was materialized and has content.
ReturnedSingle ==
    /\ ReturnedTimeline
    /\ materialized.prepared[1].type = "single"
    /\ materialized.returned[1][1] # <<>>

\* C26: time normalization for a 'single' prepared timeline: the group wrapper starts
\* at the minimum section startTime (firstStart), and every numeric start / end of
\* the section objects emitted under it equals the absolute time minus firstStart, so
\* that the earliest section starts at 0 relative to the wrapper.
C26_TimesRelativeToGroup ==
    ReturnedSingle =>
        LET sections == materialized.prepared[1].sections
            emitted == SelectSeq(sections, LAMBDA section : section.parts # <<>>)
            timelineGroup == materialized.returned[1][1][1]
            firstStart == timelineGroup.enable.start.value
        IN /\ \A i \in 1..Len(sections) : firstStart <= sections[i].startTime
           /\ \E i \in 1..Len(sections) : firstStart = sections[i].startTime
           /\ Len(timelineGroup.children) = Len(emitted)
           /\ \A k \in 1..Len(emitted) :
                 /\ timelineGroup.children[k].enable.start = Num(emitted[k].startTime - firstStart)
                 /\ timelineGroup.children[k].enable.end = Absent
                 /\ emitted[k].startTime = firstStart =>
                       timelineGroup.children[k].enable.start = Num(0)

\* C26 witness: two sections were emitted, the later one first: it starts two ticks
\* after the wrapper, the earlier one with it.
C26_Witness ==
    /\ ReturnedSingle
    /\ LET timelineGroup == materialized.returned[1][1][1]
       IN /\ timelineGroup.enable.start = Num(1)
          /\ Len(timelineGroup.children) = 2
          /\ timelineGroup.children[1].enable.start = Num(2)
          /\ timelineGroup.children[2].enable.start = Num(0)

(***************************************************************************)
(* SessionHandler (non-persistent data).  A JavaScript object used as a    *)
(* dictionary is a sequence of [key, value] entries in insertion order:    *)
(* assigning an existing key keeps its place, a deleted key that is set    *)
(* again goes to the end.                                                  *)
(***************************************************************************)
ObjectKeys(object) == [i \in 1..Len(object) |-> object[i].key]

ObjectValues(object) == [i \in 1..Len(object) |-> object[i].value]

ObjectHas(object, key) == \E i \in 1..Len(object) : object[i].key = key

ObjectGet(object, key) ==
    IF ObjectHas(object, key)
    THEN Some(object[CHOOSE i \in 1..Len(object) : object[i].key = key].value)
    ELSE None

ObjectSet(object, key, value) ==
    IF ObjectHas(object, key)
    THEN [i \in 1..Len(object) |->
             IF object[i].key = key THEN [key |-> key, value |-> value] ELSE object[i]]
    ELSE Append(object, [key |-> key, value |-> value])

RECURSIVE ObjectDelete(_, _)
ObjectDelete(object, key) ==
    IF object = <<>> THEN <<>>
    ELSE IF Head(object).key = key THEN Tail(object)
    ELSE <<Head(object)>> \o ObjectDelete(Tail(object), key)

RECURSIVE ObjectSetAll(_, _)
ObjectSetAll(object, keys) ==
    IF keys = <<>> THEN object
    ELSE ObjectSetAll(ObjectSet(object, Head(keys), TRUE), Tail(keys))

MaxUpdates == 3
ResourceIds == {1, 2}
Resources == {1, 2}
BridgeIds == {1}
BridgeStatuses == {1}
DeviceIds == {1}
DeviceNames == {1}
Identifiers == {1}
DateNow == {1, 2}

\* the fields of a new SessionHandler, with the timeouts that setTimeout
\* holds (timers), the number of updates made since the pending timeout was
\* set (updates) and the events of the emitChanges run that followed (emitted)
NewSession ==
    [resources |-> <<>>, resourcesHasChanged |-> <<>>,
     bridgeStatuses |-> <<>>, bridgeStatusesHasChanged |-> <<>>,
     peripherals |-> <<>>, peripheralsHasChanged |-> <<>>,
     allTriggers |-> <<>>, allTriggersHasChanged |-> <<>>,
     activeTriggers |-> <<>>, activeTriggersHasChanged |-> FALSE,
     emitTimeout |-> FALSE, emitEverything |-> FALSE,
     timers |-> 0, updates |-> 0, emitted |-> <<>>]

triggerUpdateAlways(s) ==
    [s EXCEPT !.emitTimeout = TRUE, !.timers = @ + 1, !.updates = @ + 1,
              !.emitted = IF s.emitTimeout THEN @ ELSE <<>>]

triggerUpdate(s) ==
    IF ~s.emitTimeout
    THEN [s EXCEPT !.emitTimeout = TRUE, !.timers = @ + 1, !.updates = 1, !.emitted = <<>>]
    ELSE [s EXCEPT !.updates = @ + 1]

triggerEmitAll(s) == triggerUpdate([s EXCEPT !.emitEverything = TRUE])

getResource(s, id) == ObjectGet(s.resources, id)

updateResource(s, id, resource) ==
    IF resource # None
    THEN triggerUpdate([s EXCEPT !.resources = ObjectSet(@, id, resource[1]),
                                 !.resourcesHasChanged = ObjectSet(@, id, TRUE)])
    ELSE triggerUpdate([s EXCEPT !.resources = ObjectDelete(@, id),
                                 !.resourcesHasChanged = ObjectSet(@, id, TRUE)])

getBridgeStatus(s, id) == ObjectGet(s.bridgeStatuses, id)

updateBridgeStatus(s, id, bridgeStatus) ==
    IF bridgeStatus # None
    THEN triggerUpdate([s EXCEPT !.bridgeStatuses = ObjectSet(@, id, bridgeStatus[1]),
                                 !.bridgeStatusesHasChanged = ObjectSet(@, id, TRUE)])
    ELSE IF ObjectHas(s.bridgeStatuses, id)
    THEN triggerUpdate([s EXCEPT !.bridgeStatuses = ObjectDelete(@, id),
                                 !.bridgeStatusesHasChanged = ObjectSet(@, id, TRUE)])
    ELSE triggerUpdate(s)

\* `${bridgeId}-${deviceId}`
PeripheralId(bridgeId, deviceId) == <<bridgeId, deviceId>>

getPeripheralStatus(s, bridgeId, deviceId) ==
    ObjectGet(s.peripherals, PeripheralId(bridgeId, deviceId))

NewDevice(existing, bridgeId, deviceId, deviceName, connected, dateNow) ==
    [id |-> deviceId, bridgeId |-> bridgeId, name |-> deviceName,
     status |-> [lastConnected |-> IF connected THEN dateNow
                                   ELSE IF existing # None
                                   THEN existing[1].status.lastConnected ELSE 0,
                 connected |-> connected]]

PeripheralStored(s, peripheralId, newDevice) ==
    IF ObjectGet(s.peripherals, peripheralId) # Some(newDevice)
    THEN [s EXCEPT !.peripherals = ObjectSet(@, peripheralId, newDevice),
                   !.peripheralsHasChanged = ObjectSet(@, peripheralId, TRUE)]
    ELSE s

updatePeripheralStatus(s, bridgeId, deviceId, deviceName, connected, dateNow) ==
    triggerUpdate(PeripheralStored(s, PeripheralId(bridgeId, deviceId),
        NewDevice(getPeripheralStatus(s, bridgeId, deviceId), bridgeId, deviceId,
                  deviceName, connected, dateNow)))

RECURSIVE WithoutBridge(_, _)
WithoutBridge(object, bridgeId) ==
    IF object = <<>> THEN <<>>
    ELSE IF Head(object).value.bridgeId = bridgeId THEN WithoutBridge(Tail(object), bridgeId)
    ELSE <<Head(object)>> \o WithoutBridge(Tail(object), bridgeId)

RECURSIVE WithoutKeysOfBridge(_, _, _)
WithoutKeysOfBridge(hasChanged, object, bridgeId) ==
    IF object = <<>> THEN hasChanged
    ELSE IF Head(object).value.bridgeId = bridgeId
    THEN WithoutKeysOfBridge(ObjectDelete(hasChanged, Head(object).key), Tail(object), bridgeId)
    ELSE WithoutKeysOfBridge(hasChanged, Tail(object), bridgeId)

resetPeripheralTriggerStatuses(s, bridgeId) ==
    [s EXCEPT !.allTriggers = WithoutBridge(@, bridgeId),
              !.allTriggersHasChanged = WithoutKeysOfBridge(@, s.allTriggers, bridgeId),
              !.activeTriggers = WithoutBridge(@, bridgeId),
              !.activeTriggersHasChanged =
                  @ \/ WithoutBridge(s.activeTriggers, bridgeId) # s.activeTriggers]

\* `${bridgeId}-${deviceId}-${identifier}`
FullIdentifier(bridgeId, deviceId, identifier) == <<bridgeId, deviceId, identifier>>

\* device?.name ?? '' : the empty name is 0
ActiveTrigger(s, bridgeId, deviceId, identifier) ==
    [fullIdentifier |-> FullIdentifier(bridgeId, deviceId, identifier),
     bridgeId |-> bridgeId, deviceId |-> deviceId,
     deviceName |-> IF getPeripheralStatus(s, bridgeId, deviceId) # None
                    THEN getPeripheralStatus(s, bridgeId, deviceId)[1].name ELSE 0,
     identifier |-> identifier]

AllTriggerStored(s, trigger) ==
    IF ~ObjectHas(s.allTriggers, trigger.fullIdentifier)
    THEN [s EXCEPT !.allTriggers = ObjectSet(@, trigger.fullIdentifier, trigger),
                   !.allTriggersHasChanged = ObjectSet(@, trigger.fullIdentifier, TRUE)]
    ELSE s

ActiveTriggerStored(s, trigger, down) ==
    IF down /\ ~ObjectHas(s.activeTriggers, trigger.fullIdentifier)
    THEN [s EXCEPT !.activeTriggers = ObjectSet(@, trigger.fullIdentifier, trigger),
                   !.activeTriggersHasChanged = TRUE]
    ELSE IF ~down /\ ObjectHas(s.activeTriggers, trigger.fullIdentifier)
    THEN [s EXCEPT !.activeTriggers = ObjectDelete(@, trigger.fullIdentifier),
                   !.activeTriggersHasChanged = TRUE]
    ELSE s

updatePeripheralTriggerStatus(s, bridgeId, deviceId, identifier, down) ==
    triggerUpdate(ActiveTriggerStored(
        AllTriggerStored(s, ActiveTrigger(s, bridgeId, deviceId, identifier)),
        ActiveTrigger(s, bridgeId, deviceId, identifier), down))

\* this.emit(event, id, object[id] ?? null) for every key of hasChanged
EventsOf(event, hasChanged, object) ==
    [i \in 1..Len(hasChanged) |->
        [event |-> event, id |-> hasChanged[i].key,
         value |-> ObjectGet(object, hasChanged[i].key)]]

EverythingMarked(s) ==
    IF s.emitEverything
    THEN [s EXCEPT !.resourcesHasChanged = ObjectSetAll(@, ObjectKeys(s.resources)),
                   !.bridgeStatusesHasChanged = ObjectSetAll(@, ObjectKeys(s.bridgeStatuses)),
                   !.peripheralsHasChanged = ObjectSetAll(@, ObjectKeys(s.peripherals)),
                   !.activeTriggersHasChanged = TRUE,
                   !.emitEverything = FALSE]
    ELSE s

ChangesEmitted(s) ==
    [s EXCEPT !.emitted = @ \o EventsOf("resource", s.resourcesHasChanged, s.resources)
                            \o EventsOf("bridgeStatus", s.bridgeStatusesHasChanged, s.bridgeStatuses)
                            \o EventsOf("peripheral", s.peripheralsHasChanged, s.peripherals)
                            \o EventsOf("allTrigger", s.allTriggersHasChanged, s.allTriggers)
                            \o (IF s.activeTriggersHasChanged
                                THEN <<[event |-> "activeTriggers", id |-> None,
                                        value |-> ObjectValues(s.activeTriggers)]>>
                                ELSE <<>>),
              !.resourcesHasChanged = <<>>,
              !.bridgeStatusesHasChanged = <<>>,
              !.peripheralsHasChanged = <<>>,
              !.allTriggersHasChanged = <<>>,
              !.activeTriggersHasChanged = FALSE]

emitChanges(s) == ChangesEmitted(EverythingMarked(s))

\* the callback of setTimeout(..., 5)
timeoutCallback(s) == emitChanges([s EXCEPT !.emitTimeout = FALSE, !.timers = @ - 1])

InitSession ==
    /\ undoLedger = <<>>
    /\ undoPointer = -1
    /\ execCount = 0
    /\ pending = {}
    /\ lastCall = NoCall
    /\ interleaved = FALSE
    /\ groups = <<>>
    /\ now = 0
    /\ before = NoObservation
    /\ materialized = None
    /\ project = None
    /\ session = NewSession

SessionStep(s) ==
    /\ session' = s
    /\ UNCHANGED <<undoLedger, undoPointer, execCount, pending, lastCall, interleaved,
                   groups, now, before, materialized, project>>

UpdateResource ==
    /\ session.updates < MaxUpdates
    /\ \E id \in ResourceIds, resource \in {None} \cup {Some(r) : r \in Resources} :
           SessionStep(updateResource(session, id, resource))

UpdateBridgeStatus ==
    /\ session.updates < MaxUpdates
    /\ \E id \in BridgeIds, bridgeStatus \in {None} \cup {Some(b) : b \in BridgeStatuses} :
           SessionStep(updateBridgeStatus(session, id, bridgeStatus))

UpdatePeripheralStatus ==
    /\ session.updates < MaxUpdates
    /\ \E bridgeId \in BridgeIds, deviceId \in DeviceIds, deviceName \in DeviceNames,
          connected \in BOOLEAN, dateNow \in DateNow :
           SessionStep(updatePeripheralStatus(session, bridgeId, deviceId, deviceName,
                                              connected, dateNow))

UpdatePeripheralTriggerStatus ==
    /\ session.updates < MaxUpdates
    /\ \E bridgeId \in BridgeIds, deviceId \in DeviceIds, identifier \in Identifiers,
          down \in BOOLEAN :
           SessionStep(updatePeripheralTriggerStatus(session, bridgeId, deviceId,
                                                     identifier, down))

ResetPeripheralTriggerStatuses ==
    /\ \E bridgeId \in BridgeIds :
           session' = resetPeripheralTriggerStatuses(session, bridgeId)
    /\ UNCHANGED <<undoLedger, undoPointer, execCount, pending, lastCall, interleaved,
                   groups, now, before, materialized, project>>

TriggerEmitAll ==
    /\ session.updates < MaxUpdates
    /\ SessionStep(triggerEmitAll(session))

TimeoutCallback ==
    /\ session.timers > 0
    /\ SessionStep(timeoutCallback(session))

NextSession ==
    \/ UpdateResource
    \/ UpdateBridgeStatus
    \/ UpdatePeripheralStatus
    \/ UpdatePeripheralTriggerStatus
    \/ ResetPeripheralTriggerStatuses
    \/ TriggerEmitAll
    \/ TimeoutCallback

SpecSession == InitSession /\ [][NextSession]_vars

(***************************************************************************)
(* Debounced notification.                                                 *)
(***************************************************************************)
MapOf(s, event) ==
    CASE event = "resource" -> s.resources
      [] event = "bridgeStatus" -> s.bridgeStatuses
      [] event = "peripheral" -> s.peripherals
      [] event = "allTrigger" -> s.allTriggers

HasChangedOf(s, event) ==
    CASE event = "resource" -> s.resourcesHasChanged
      [] event = "bridgeStatus" -> s.bridgeStatusesHasChanged
      [] event = "peripheral" -> s.peripheralsHasChanged
      [] event = "allTrigger" -> s.allTriggersHasChanged

\* the value an event of the session would carry if it were emitted now
CurrentValue(s, e) ==
    IF e.event = "activeTriggers" THEN ObjectValues(s.activeTriggers)
    ELSE ObjectGet(MapOf(s, e.event), e.id)

SameSubject(e, f) == e.event = f.event /\ e.id = f.id

\* every id marked as changed in s is the subject of an event of emitted
AllMarkedEmitted(s, emitted) ==
    /\ \A event \in {"resource", "bridgeStatus", "peripheral", "allTrigger"} :
         \A i \in 1..Len(HasChangedOf(s, event)) :
            \E k \in 1..Len(emitted) :
               emitted[k].event = event /\ emitted[k].id = HasChangedOf(s, event)[i].key
    /\ s.activeTriggersHasChanged =>
         \E k \in 1..Len(emitted) : emitted[k].event = "activeTriggers"

\* whatever the timer is doing, the maps hold the new value when the call returns
UpdatesVisible(s) ==
    /\ \A id \in ResourceIds, resource \in {None} \cup {Some(r) : r \in Resources} :
          getResource(updateResource(s, id, resource), id) = resource
    /\ \A id \in BridgeIds, bridgeStatus \in {None} \cup {Some(b) : b \in BridgeStatuses} :
          getBridgeStatus(updateBridgeStatus(s, id, bridgeStatus), id) = bridgeStatus
    /\ \A bridgeId \in BridgeIds, deviceId \in DeviceIds, deviceName \in DeviceNames,
          connected \in BOOLEAN, dateNow \in DateNow :
          getPeripheralStatus(updatePeripheralStatus(s, bridgeId, deviceId, deviceName,
                                                     connected, dateNow), bridgeId, deviceId) =
              Some(NewDevice(getPeripheralStatus(s, bridgeId, deviceId), bridgeId, deviceId,
                             deviceName, connected, dateNow))

C27_Step ==
    \* an update made while the timer is pending runs nothing and sets no second timer
    /\ (session.emitTimeout /\ session'.updates > session.updates) =>
          /\ session'.emitTimeout
          /\ session'.timers = 1
          /\ session'.emitted = <<>>
    \* the one run emits every marked id once, with the value held at that time
    /\ session'.timers < session.timers =>
          /\ session'.timers = 0
          /\ ~session'.emitTimeout
          /\ \A i, k \in 1..Len(session'.emitted) :
                SameSubject(session'.emitted[i], session'.emitted[k]) => i = k
          /\ \A i \in 1..Len(session'.emitted) :
                session'.emitted[i].value = CurrentValue(session', session'.emitted[i])
          /\ AllMarkedEmitted(session, session'.emitted)
          /\ session'.resources = session.resources
          /\ session'.bridgeStatuses = session.bridgeStatuses
          /\ session'.peripherals = session.peripherals

\* C27: the updates made while an emit timer is pending are followed by one
\* emitChanges run, which emits one event for each changed id with the value
\* held when it runs, and each update is visible to the getters when the
\* update call returns.
C27_DebouncedNotification == [][C27_Step]_vars /\ []UpdatesVisible(session)

\* three updates of one resource, the last with another value than the first,
\* were followed by a run that emitted one event
C27_Witness ==
    /\ ~session.emitTimeout
    /\ session.updates = 3
    /\ Len(session.emitted) = 1
    /\ session.emitted[1].event = "resource"
    /\ session.emitted[1].value = Some(2)

(***************************************************************************)
(* Adding resources to a part's timeline and choosing their layer.         *)
(* Layer ids, device ids and object ids are naturals, 0 standing for the   *)
(* empty string / undefined / null.  project.mappings is a function from   *)
(* layer ids to mappings.                                                  *)
(***************************************************************************)
MaxResources == 2

\* the device type a resource type belongs to
DeviceTypeOf(resourceType) ==
    IF resourceType \in {"CASPARCG_MEDIA", "CASPARCG_TEMPLATE"} THEN "CASPARCG" ELSE "ATEM"

TSRTimelineObjFromResource(resource, id) ==
    [id |-> id, layer |-> 0,
     enable |-> [start |-> Num(0),
                 duration |-> IF resource.duration = 0 THEN Absent ELSE Num(resource.duration)],
     content |-> [deviceType |-> DeviceTypeOf(resource.resourceType),
                  type |-> resource.resourceType,
                  file |-> resource.name]]

isLayerInfinite(part, layerId) ==
    \E i \in 1..Len(part.timeline) :
        /\ part.timeline[i].obj.layer = layerId
        /\ part.timeline[i].obj.enable.duration = Absent

allowAddingResourceToLayer(resource, mapping) ==
    mapping.device = DeviceTypeOf(resource.resourceType)

filterMapping(mapping, obj) == mapping.device = obj.content.deviceType

listAvailableDeviceIDs(bridges) == bridges

RECURSIVE sortMappings(_, _)
sortMappings(mappings, layerIds) ==
    IF layerIds = {} THEN <<>>
    ELSE <<[layerId |-> CHOOSE l \in layerIds : \A k \in layerIds : l <= k,
            mapping |-> mappings[CHOOSE l \in layerIds : \A k \in layerIds : l <= k]]>>
         \o sortMappings(mappings, layerIds \ {CHOOSE l \in layerIds : \A k \in layerIds : l <= k})

getLastEndTime(timeline, layerId) ==
    IF \E i \in 1..Len(timeline) : timeline[i].obj.layer = layerId
    THEN [objId |-> timeline[CHOOSE i \in 1..Len(timeline) :
                                /\ timeline[i].obj.layer = layerId
                                /\ \A k \in (i + 1)..Len(timeline) :
                                      timeline[k].obj.layer # layerId].obj.id,
          time |-> 0]
    ELSE [objId |-> 0, time |-> 0]

postProcessPart(part) == part

guessDeviceIdFromTimelineObject(ofProject, obj) ==
    IF \E l \in DOMAIN ofProject.mappings : ofProject.mappings[l].device = obj.content.deviceType
    THEN ofProject.mappings[CHOOSE l \in DOMAIN ofProject.mappings :
                             ofProject.mappings[l].device = obj.content.deviceType].deviceId
    ELSE 0

getMappingFromTimelineObject(obj, deviceId, resource) ==
    [device |-> obj.content.deviceType, deviceId |-> deviceId, layerName |-> "new",
     channel |-> IF resource # None /\ resource[1].channel # 0 THEN resource[1].channel ELSE 1,
     layer |-> IF resource # None /\ resource[1].layer # 0 THEN resource[1].layer ELSE 10]

\* shortID(): an id no mapping of the project has
NewLayerId(mappings) == 10 + Cardinality(DOMAIN mappings)

(***************************************************************************)
(* _findBestOrCreateLayer                                                  *)
(***************************************************************************)
IsPossibleLayer(arg, entry) ==
    /\ arg.resource = None \/ arg.resource[1].deviceId = entry.mapping.deviceId
    /\ entry.mapping.deviceId \in listAvailableDeviceIDs(arg.project.bridges)
    /\ filterMapping(entry.mapping, arg.obj)
    /\ arg.layerMustBeFree =>
          ~\E i \in 1..Len(arg.part.timeline) : arg.part.timeline[i].obj.layer = entry.layerId

RECURSIVE possibleLayers(_, _, _)
possibleLayers(votes, arg, sorted) ==
    IF sorted = <<>> THEN votes
    ELSE possibleLayers(IF IsPossibleLayer(arg, Head(sorted))
                        THEN ObjectSet(votes, Head(sorted).layerId, 1) ELSE votes,
                        arg, Tail(sorted))

\* the timeline objects of all parts of all groups of the rundown
RECURSIVE RundownObjects(_)
RundownObjects(parts) ==
    IF parts = <<>> THEN <<>> ELSE Head(parts).timeline \o RundownObjects(Tail(parts))

MatchingProperties(content, objContent) ==
    Cardinality({property \in DOMAIN content :
                    property \in DOMAIN objContent /\ content[property] = objContent[property]})

RECURSIVE Voted(_, _, _)
Voted(votes, obj, timelineObjs) ==
    IF timelineObjs = <<>> THEN votes
    ELSE Voted(IF ObjectHas(votes, Head(timelineObjs).obj.layer)
               THEN ObjectSet(votes, Head(timelineObjs).obj.layer,
                              ObjectGet(votes, Head(timelineObjs).obj.layer)[1]
                                  + MatchingProperties(Head(timelineObjs).obj.content, obj.content))
               ELSE votes,
               obj, Tail(timelineObjs))

WrongChannelOrLayer(resource, mapping) ==
    /\ mapping.device = "CASPARCG"
    /\ \/ resource.channel # 0 /\ mapping.channel # resource.channel
       \/ resource.layer # 0 /\ mapping.layer # resource.layer

CasparCGChecked(votes, arg) ==
    IF /\ arg.resource # None
       /\ arg.resource[1].resourceType \in {"CASPARCG_MEDIA", "CASPARCG_TEMPLATE"}
       /\ (arg.resource[1].channel # 0 \/ arg.resource[1].layer # 0)
    THEN [i \in 1..Len(votes) |->
             IF WrongChannelOrLayer(arg.resource[1], arg.project.mappings[votes[i].key])
             THEN [key |-> votes[i].key, value |-> -999] ELSE votes[i]]
    ELSE votes

\* the votes of every possible layer, in the order of sortMappings
LayerVotes(arg) ==
    CasparCGChecked(
        Voted(possibleLayers(<<>>, arg,
                             sortMappings(arg.project.mappings, DOMAIN arg.project.mappings)),
              arg.obj, RundownObjects(arg.rundown)),
        arg)

RECURSIVE bestLayerLast(_, _)
bestLayerLast(prev, entries) ==
    IF entries = <<>> THEN prev
    ELSE bestLayerLast(IF Head(entries).value > 0 THEN Head(entries) ELSE prev, Tail(entries))

RECURSIVE bestLayer(_, _)
bestLayer(prev, entries) ==
    IF entries = <<>> THEN prev
    ELSE bestLayer(IF Head(entries).value > prev.value THEN Head(entries) ELSE prev,
                   Tail(entries))

newMapping(arg, deviceId) ==
    IF deviceId # 0 THEN Some(getMappingFromTimelineObject(arg.obj, deviceId, arg.resource))
    ELSE IF arg.originalLayerId # 0 /\ arg.originalLayerId \in DOMAIN arg.project.mappings
    THEN Some(arg.project.mappings[arg.originalLayerId])
    ELSE None

Registered(mappings, layerId, mapping) ==
    [l \in DOMAIN mappings \cup {layerId} |-> IF l = layerId THEN mapping ELSE mappings[l]]

\* the new layer, if one can be made: project.mappings[newLayerId] = newMapping
CreatedLayer(arg, made) ==
    IF made # None /\ made[1].layerName # ""
    THEN [layerId |-> NewLayerId(arg.project.mappings), createdNewLayer |-> TRUE,
          mappings |-> Registered(arg.project.mappings, NewLayerId(arg.project.mappings), made[1]),
          thrown |-> ""]
    ELSE [layerId |-> 0, createdNewLayer |-> FALSE, mappings |-> arg.project.mappings,
          thrown |-> "No layer found"]

LayerVerified(arg, found) ==
    IF found.thrown # "" THEN found
    ELSE IF found.layerId \notin DOMAIN found.mappings
    THEN [found EXCEPT !.thrown = "Layer not found"]
    ELSE IF ~filterMapping(found.mappings[found.layerId], arg.obj)
    THEN [found EXCEPT !.thrown = "Not a valid layer for that timeline-object."]
    ELSE found

PickedOrCreated(arg, best) ==
    IF best.value > 0
    THEN [layerId |-> best.key, createdNewLayer |-> FALSE, mappings |-> arg.project.mappings,
          thrown |-> ""]
    ELSE CreatedLayer(arg, newMapping(arg,
             IF arg.resource # None /\ arg.resource[1].deviceId # 0
             THEN arg.resource[1].deviceId
             ELSE guessDeviceIdFromTimelineObject(arg.project, arg.obj)))

_findBestOrCreateLayer(arg) ==
    LayerVerified(arg, PickedOrCreated(arg, bestLayer([key |-> 0, value |-> 0], LayerVotes(arg))))

(***************************************************************************)
(* addResourcesToTimeline.  acc holds what the loop has changed so far;    *)
(* acc.log has one entry for each resource the loop went through.          *)
(***************************************************************************)
FindArg(acc, obj, resource) ==
    [project |-> [mappings |-> acc.mappings, bridges |-> acc.bridges],
     rundown |-> <<[timeline |-> acc.timeline]>> \o acc.others,
     part |-> [timeline |-> acc.timeline],
     obj |-> obj, resource |-> Some(resource),
     layerMustBeFree |-> TRUE, originalLayerId |-> 0]

GivenLayer(acc, layerId) ==
    [layerId |-> layerId, createdNewLayer |-> FALSE, mappings |-> acc.mappings, thrown |-> "",
     found |-> FALSE]

Found(result) ==
    [layerId |-> result.layerId, createdNewLayer |-> result.createdNewLayer,
     mappings |-> result.mappings, thrown |-> result.thrown, found |-> TRUE]

addToLayerId(acc, arg, resource, obj) ==
    IF arg.layerId # 0 /\ ~isLayerInfinite([timeline |-> acc.timeline], arg.layerId)
    THEN GivenLayer(acc, arg.layerId)
    ELSE IF /\ acc.usePreviousLayerId # 0
            /\ allowAddingResourceToLayer(resource, acc.mappings[acc.usePreviousLayerId])
            /\ ~isLayerInfinite([timeline |-> acc.timeline], acc.usePreviousLayerId)
    THEN GivenLayer(acc, acc.usePreviousLayerId)
    ELSE Found(_findBestOrCreateLayer(FindArg(acc, obj, resource)))

LogEntry(resource, chosen, allow, pushed) ==
    [resourceId |-> resource.id, layerId |-> chosen.layerId, found |-> chosen.found,
     createdNewLayer |-> chosen.createdNewLayer, allow |-> allow, pushed |-> pushed]

\* the timeline object, placed after the last object of its layer
TimelineObjAtEnd(resource, obj, layerId, lastEnd) ==
    [resourceId |-> resource.id,
     obj |-> [obj EXCEPT !.layer = layerId,
                         !.enable.start = IF lastEnd.objId # 0
                                          THEN Str(<<"#", lastEnd.objId, ".end">>)
                                          ELSE Num(lastEnd.time)]]

Pushing(acc, resource, obj, chosen) ==
    [acc EXCEPT !.timeline = postProcessPart([timeline |->
                                 Append(@, TimelineObjAtEnd(resource, obj, chosen.layerId,
                                            getLastEndTime(acc.timeline, chosen.layerId)))]).timeline,
                !.addedNewTimelineObjIds = Append(@, obj.id),
                !.log = Append(@, LogEntry(resource, chosen, TRUE, obj.id))]

\* passes over a resource that is not allowed, however many resources there are
PlacedNeverThrows(acc, arg, resource, obj, chosen) ==
    IF chosen.thrown # ""
    THEN [acc EXCEPT !.mappings = chosen.mappings, !.thrown = chosen.thrown]
    ELSE IF ~(/\ chosen.layerId \in DOMAIN chosen.mappings
              /\ allowAddingResourceToLayer(resource, chosen.mappings[chosen.layerId]))
    THEN [acc EXCEPT !.mappings = chosen.mappings,
                     !.addedNewLayers = IF chosen.createdNewLayer
                                        THEN Append(@, chosen.layerId) ELSE @,
                     !.usePreviousLayerId = chosen.layerId,
                     !.ids = @ + 1,
                     !.thrown = "",
                     !.log = Append(@, LogEntry(resource, chosen, FALSE, 0))]
    ELSE Pushing([acc EXCEPT !.mappings = chosen.mappings,
                             !.addedNewLayers = IF chosen.createdNewLayer
                                                THEN Append(@, chosen.layerId) ELSE @,
                             !.usePreviousLayerId = chosen.layerId,
                             !.ids = @ + 1],
                 resource, obj, chosen)

Placed(acc, arg, resource, obj, chosen) ==
    IF chosen.thrown # ""
    THEN [acc EXCEPT !.mappings = chosen.mappings, !.thrown = chosen.thrown]
    ELSE IF ~(/\ chosen.layerId \in DOMAIN chosen.mappings
              /\ allowAddingResourceToLayer(resource, chosen.mappings[chosen.layerId]))
    THEN [acc EXCEPT !.mappings = chosen.mappings,
                     !.addedNewLayers = IF chosen.createdNewLayer
                                        THEN Append(@, chosen.layerId) ELSE @,
                     !.usePreviousLayerId = chosen.layerId,
                     !.ids = @ + 1,
                     !.thrown = IF Len(arg.resourceIds) > 1 THEN "" ELSE "Prevented addition",
                     !.log = Append(@, LogEntry(resource, chosen, FALSE, 0))]
    ELSE Pushing([acc EXCEPT !.mappings = chosen.mappings,
                             !.addedNewLayers = IF chosen.createdNewLayer
                                                THEN Append(@, chosen.layerId) ELSE @,
                             !.usePreviousLayerId = chosen.layerId,
                             !.ids = @ + 1],
                 resource, obj, chosen)

ResourceAdded(acc, arg, resource, obj) ==
    Placed(acc, arg, resource, obj, addToLayerId(acc, arg, resource, obj))

RECURSIVE addResources(_, _, _)
addResources(acc, arg, resourceIds) ==
    IF resourceIds = <<>> \/ acc.thrown # "" THEN acc
    ELSE IF Head(resourceIds) = None
    THEN [acc EXCEPT !.thrown = "Resource not found"]
    ELSE addResources(ResourceAdded(acc, arg, Head(resourceIds)[1],
                                    TSRTimelineObjFromResource(Head(resourceIds)[1], acc.ids + 1)),
                      arg, Tail(resourceIds))

LoopStart(p) ==
    [mappings |-> p.mappings, bridges |-> p.bridges, others |-> p.others,
     timeline |-> p.part.timeline, usePreviousLayerId |-> 0, addedNewLayers |-> <<>>,
     addedNewTimelineObjIds |-> <<>>, thrown |-> "", ids |-> p.ids, log |-> <<>>]

NoFound == [arg |-> None, result |-> None]

Observed(p, arg, outcome, acc) ==
    [method |-> "addResourcesToTimeline", arg |-> arg, outcome |-> outcome,
     thrown |-> acc.thrown, log |-> acc.log, timeline |-> p.part.timeline,
     mappings |-> p.mappings, found |-> NoFound]

LoopEnd(p, arg, acc) ==
    [p EXCEPT !.mappings = acc.mappings,
              !.part.timeline = acc.timeline,
              !.ids = acc.ids,
              !.last = Observed(p, arg, IF acc.thrown # "" THEN "thrown" ELSE "returned", acc)]

addResourcesToTimeline(p, arg) ==
    IF p.group.locked \/ p.part.locked
    THEN [p EXCEPT !.last = Observed(p, arg, "undefined", LoopStart(p))]
    ELSE IF Len(arg.resourceIds) = 0
    THEN [p EXCEPT !.last = Observed(p, arg, "thrown",
                                     [LoopStart(p) EXCEPT !.thrown = "ResourceIds-array is empty"])]
    ELSE LoopEnd(p, arg, addResources(LoopStart(p), arg, arg.resourceIds))

(***************************************************************************)
(* Projects, rundowns and calls the layer model is run on.                 *)
(***************************************************************************)
LibraryResource(id, deviceId, resourceType, name, channel, duration) ==
    [id |-> id, deviceId |-> deviceId, resourceType |-> resourceType, name |-> name,
     channel |-> channel, layer |-> 0, duration |-> duration]

LibraryResources ==
    {LibraryResource(1, 1, "CASPARCG_MEDIA", "a", 0, 5),
     LibraryResource(2, 1, "CASPARCG_MEDIA", "b", 2, 5),
     LibraryResource(3, 2, "ATEM_ME", "m", 0, 0)}

ProjectMapping(device, deviceId, channel) ==
    [device |-> device, deviceId |-> deviceId, layerName |-> "layer", channel |-> channel,
     layer |-> 10]

AllMappings ==
    (1 :> ProjectMapping("CASPARCG", 1, 1)) @@ (2 :> ProjectMapping("CASPARCG", 1, 2))
        @@ (3 :> ProjectMapping("ATEM", 2, 0))

ProjectMappings == {[l \in layerIds |-> AllMappings[l]] : layerIds \in {{}, {3}, {1, 2}, {1, 2, 3}}}

\* an object of another part, made from a resource and put on a layer
OtherObj(resource, id, layerId) ==
    [resourceId |-> resource.id,
     obj |-> [TSRTimelineObjFromResource(resource, id) EXCEPT !.layer = layerId]]

OtherTimelines ==
    {<<>>,
     <<OtherObj(LibraryResource(1, 1, "CASPARCG_MEDIA", "a", 0, 5), 91, 1)>>,
     <<OtherObj(LibraryResource(1, 1, "CASPARCG_MEDIA", "a", 0, 5), 91, 2),
       OtherObj(LibraryResource(1, 1, "CASPARCG_MEDIA", "a", 0, 5), 92, 2)>>,
     <<OtherObj(LibraryResource(2, 1, "CASPARCG_MEDIA", "b", 2, 5), 91, 1),
       OtherObj(LibraryResource(3, 2, "ATEM_ME", "m", 0, 0), 92, 3)>>}

Locks == {<<FALSE, FALSE>>, <<TRUE, FALSE>>, <<FALSE, TRUE>>}

\* the timeline of the part before the call
PartTimelinesBefore ==
    {<<>>,
     <<OtherObj(LibraryResource(1, 1, "CASPARCG_MEDIA", "a", 0, 5), 81, 1)>>,
     <<OtherObj(LibraryResource(3, 2, "ATEM_ME", "m", 0, 0), 81, 3)>>}

NoAdd ==
    [method |-> "none", arg |-> None, outcome |-> "none", thrown |-> "", log |-> <<>>,
     timeline |-> <<>>, mappings |-> <<>>, found |-> NoFound]

RECURSIVE SeqsUpTo(_, _)
SeqsUpTo(set, n) ==
    IF n = 0 THEN {<<>>}
    ELSE SeqsUpTo(set, n - 1) \cup
         {Append(s, x) : s \in {t \in SeqsUpTo(set, n - 1) : Len(t) = n - 1}, x \in set}

AddArgs ==
    {[layerId |-> layerId, resourceIds |-> resourceIds] :
        layerId \in {0, 1, 3, 4},
        resourceIds \in SeqsUpTo({None} \cup {Some(r) : r \in LibraryResources}, MaxResources)}

InitLayers ==
    /\ undoLedger = <<>>
    /\ undoPointer = -1
    /\ execCount = 0
    /\ pending = {}
    /\ lastCall = NoCall
    /\ interleaved = FALSE
    /\ groups = <<>>
    /\ now = 0
    /\ before = NoObservation
    /\ materialized = None
    /\ session = None
    /\ \E mappings \in ProjectMappings, bridges \in {{1}, {1, 2}}, timeline \in OtherTimelines,
          locked \in Locks, partTimeline \in PartTimelinesBefore :
          project = [mappings |-> mappings, bridges |-> bridges,
                     others |-> <<[timeline |-> timeline]>>,
                     group |-> [locked |-> locked[1]],
                     part |-> [locked |-> locked[2], timeline |-> partTimeline],
                     ids |-> 100, last |-> NoAdd]

LayersStep(p) ==
    /\ project' = p
    /\ UNCHANGED <<undoLedger, undoPointer, execCount, pending, lastCall, interleaved,
                   groups, now, before, materialized, session>>

AddResourcesToTimeline ==
    /\ project.last.method = "none"
    /\ \E arg \in AddArgs : LayersStep(addResourcesToTimeline(project, arg))

\* a call of _findBestOrCreateLayer for an object of the part's own timeline
\* or of a resource (lines 1611, 1688)
FoundFor(p, arg) ==
    [p EXCEPT !.last = [NoAdd EXCEPT !.method = "_findBestOrCreateLayer",
                                     !.found = [arg |-> Some(arg),
                                                result |-> Some(_findBestOrCreateLayer(arg))]],
              !.mappings = _findBestOrCreateLayer(arg).mappings]

FindBestOrCreateLayer ==
    /\ project.last.method = "none"
    /\ \E r \in LibraryResources, withResource \in BOOLEAN, layerMustBeFree \in BOOLEAN,
          originalLayerId \in {0, 1} :
          LayersStep(FoundFor(project,
              [project |-> [mappings |-> project.mappings, bridges |-> project.bridges],
               rundown |-> <<[timeline |-> project.part.timeline]>> \o project.others,
               part |-> [timeline |-> project.part.timeline],
               obj |-> TSRTimelineObjFromResource(r, project.ids),
               resource |-> IF withResource THEN Some(r) ELSE None,
               layerMustBeFree |-> layerMustBeFree,
               originalLayerId |-> originalLayerId]))

NextLayers == AddResourcesToTimeline \/ FindBestOrCreateLayer

SpecLayers == InitLayers /\ [][NextLayers]_vars

(***************************************************************************)
(* IncompatibleLayer.                                                      *)
(***************************************************************************)
\* the resource ids of the objects the call appended to the part's timeline
AppendedResourceIds(p) ==
    [i \in 1..(Len(p.part.timeline) - Len(p.last.timeline)) |->
        p.part.timeline[Len(p.last.timeline) + i].resourceId]

RECURSIVE AllowedResourceIds(_)
AllowedResourceIds(log) ==
    IF log = <<>> THEN <<>>
    ELSE (IF Head(log).allow THEN <<Head(log).resourceId>> ELSE <<>>)
         \o AllowedResourceIds(Tail(log))

AddedTo(p) ==
    /\ p.last.method = "addResourcesToTimeline"
    /\ p.last.outcome # "undefined"
    /\ Len(p.last.arg.resourceIds) >= 1

\* C28: with one resource that is not allowed on its layer the call throws
\* and the timeline is as before; with several resources the ones that are not
\* allowed are passed over without an error and the allowed ones are appended
\* to the timeline in the order of the input.
C28_IncompatibleLayer ==
    AddedTo(project) =>
        /\ \A i \in 1..Len(project.last.log) :
              project.last.log[i].resourceId = project.last.arg.resourceIds[i][1].id
        /\ SubSeq(project.part.timeline, 1, Len(project.last.timeline)) = project.last.timeline
        /\ AppendedResourceIds(project) = AllowedResourceIds(project.last.log)
        /\ (Len(project.last.arg.resourceIds) = 1 /\ Len(project.last.log) = 1
               /\ ~project.last.log[1].allow) =>
              /\ project.last.outcome = "thrown"
              /\ project.part.timeline = project.last.timeline
        /\ Len(project.last.arg.resourceIds) > 1 =>
              /\ project.last.thrown # "Prevented addition"
              /\ (\A i \in 1..Len(project.last.arg.resourceIds) :
                     project.last.arg.resourceIds[i] # None) =>
                    /\ project.last.outcome = "returned"
                    /\ Len(project.last.log) = Len(project.last.arg.resourceIds)

\* two resources, the first not allowed on the layer and the second appended
C28_Witness ==
    /\ AddedTo(project)
    /\ Len(project.last.arg.resourceIds) = 2
    /\ project.last.outcome = "returned"
    /\ Len(project.last.log) = 2
    /\ ~project.last.log[1].allow
    /\ project.last.log[2].allow
    /\ Len(project.part.timeline) = Len(project.last.timeline) + 1

\* one resource, not allowed on the layer
C28_WitnessSingle ==
    /\ AddedTo(project)
    /\ Len(project.last.arg.resourceIds) = 1
    /\ Len(project.last.log) = 1
    /\ ~project.last.log[1].allow
    /\ project.last.outcome = "thrown"

(***************************************************************************)
(* Layer auto-assignment.                                                  *)
(***************************************************************************)
FoundArg == project.last.found.arg[1]

FoundResult == project.last.found.result[1]

HighestVote(votes) ==
    IF votes = <<>> THEN 0
    ELSE votes[CHOOSE i \in 1..Len(votes) : \A k \in 1..Len(votes) : votes[k].value <= votes[i].value].value

\* the layer is a candidate for the call and is not ruled out by channel or layer
Candidate(arg, layerId) ==
    /\ layerId \in DOMAIN arg.project.mappings
    /\ IsPossibleLayer(arg, [layerId |-> layerId, mapping |-> arg.project.mappings[layerId]])
    /\ ~(/\ arg.resource # None
         /\ arg.resource[1].resourceType \in {"CASPARCG_MEDIA", "CASPARCG_TEMPLATE"}
         /\ WrongChannelOrLayer(arg.resource[1], arg.project.mappings[layerId]))

\* the objects of the rundown that are on the layer
ObjectsOn(arg, layerId) ==
    {i \in 1..Len(RundownObjects(arg.rundown)) :
        RundownObjects(arg.rundown)[i].obj.layer = layerId}

HoldsSimilar(arg, layerId) ==
    \E i \in ObjectsOn(arg, layerId) :
        MatchingProperties(RundownObjects(arg.rundown)[i].obj.content, arg.obj.content) > 0

\* C29: _findBestOrCreateLayer returns a candidate layer with the highest
\* vote when that vote is above 0, so that a candidate holding objects with
\* matching content properties is preferred to a candidate holding nothing;
\* a new mapping is made only when no candidate has a vote above 0, and it is
\* then registered in project.mappings and returned with createdNewLayer.
C29_BestOrCreatedLayer ==
    project.last.method = "_findBestOrCreateLayer" =>
        /\ HighestVote(LayerVotes(FoundArg)) > 0 =>
              /\ FoundResult.thrown = ""
              /\ ~FoundResult.createdNewLayer
              /\ FoundResult.mappings = FoundArg.project.mappings
              /\ \E i \in 1..Len(LayerVotes(FoundArg)) :
                    /\ LayerVotes(FoundArg)[i].key = FoundResult.layerId
                    /\ LayerVotes(FoundArg)[i].value = HighestVote(LayerVotes(FoundArg))
              /\ \A empty, similar \in DOMAIN FoundArg.project.mappings :
                    (/\ Candidate(FoundArg, empty) /\ Candidate(FoundArg, similar)
                     /\ ObjectsOn(FoundArg, empty) = {}
                     /\ HoldsSimilar(FoundArg, similar)) => FoundResult.layerId # empty
        /\ FoundResult.createdNewLayer =>
              /\ HighestVote(LayerVotes(FoundArg)) <= 0
              /\ FoundResult.layerId \notin DOMAIN FoundArg.project.mappings
              /\ FoundResult.layerId \in DOMAIN FoundResult.mappings
              /\ FoundResult.mappings = project.mappings
              /\ \A l \in DOMAIN FoundArg.project.mappings :
                    FoundResult.mappings[l] = FoundArg.project.mappings[l]
        /\ (HighestVote(LayerVotes(FoundArg)) <= 0 /\ FoundResult.thrown = "") =>
              FoundResult.createdNewLayer

\* layer 2 holds two objects made from the same resource, layer 1 is a
\* candidate and holds nothing: layer 2 is returned
C29_Witness ==
    /\ project.last.method = "_findBestOrCreateLayer"
    /\ Candidate(FoundArg, 1)
    /\ Candidate(FoundArg, 2)
    /\ ObjectsOn(FoundArg, 1) = {}
    /\ Cardinality(ObjectsOn(FoundArg, 2)) = 2
    /\ HoldsSimilar(FoundArg, 2)
    /\ FoundResult.layerId = 2
    /\ ~FoundResult.createdNewLayer

\* no candidate: a new mapping is registered
C29_WitnessCreated ==
    /\ project.last.method = "_findBestOrCreateLayer"
    /\ FoundResult.createdNewLayer
    /\ FoundArg.project.mappings # <<>>

(***************************************************************************)
(* The pointer and the ledger.                                             *)
(***************************************************************************)
\* C30: in every reachable state, also while a handler, undo() or redo() is
\* suspended at an await and another one runs, the pointer is at least -1
\* and at most the index of the last entry of the ledger.
C30_PointerInLedger == -1 <= undoPointer /\ undoPointer <= Len(undoLedger) - 1

----------------------------------------------------------------------------
(* undo() of an entry whose inverse waits for I/O.                          *)

\* undo() calls in flight at a time.
MaxUndoing == 2

\* The number a suspended undo() is told apart by.
FreeSlot == CHOOSE k \in 1..(Cardinality(pending) + 1) : \A h \in pending : h.op = "undo" => h.seq # k

\* openRundown, lines 2050-2061: storage.openRundown is synchronous; the inverse
\* awaits storage.closeRundown.
OpenRundown ==
    /\ UNCHANGED rundownVars
    /\ execCount < MaxExec
    /\ \E args \in Arguments : HandlerReturns("openRundown", args, UndoableResult, execCount + 1)

\* redo() of an openRundown entry, lines 244-258.
RedoOpenRundown ==
    LET action == EntryAt(undoLedger, undoPointer + 1) IN
    /\ UNCHANGED rundownVars
    /\ UNCHANGED pending
    /\ action # None
    /\ action[1].description = "openRundown"
    /\ execCount < MaxExec
    /\ execCount' = execCount + 1
    /\ undoLedger' = SetUndo(undoLedger, action[1].seq, execCount + 1)
    /\ undoPointer' = AfterRedo(undoPointer)
    /\ lastCall' = [NoCall EXCEPT !.op = "redo", !.method = action[1].description,
                       !.outcome = "returned", !.result = UndoableResult,
                       !.calledRedo = Some(<<action[1].description, action[1].arguments>>)]
    /\ interleaved' = (interleaved \/ MidMutation)

\* undo(), lines 231-233: the entry at the pointer is read and its inverse is
\* invoked; the inverse of openRundown awaits storage.closeRundown (line 2057),
\* and undo() is suspended at line 233 with the pointer not yet moved.
UndoStart ==
    LET action == EntryAt(undoLedger, undoPointer) IN
    /\ UNCHANGED rundownVars
    /\ action # None
    /\ action[1].description = "openRundown"
    /\ Cardinality({h \in pending : h.op = "undo"}) < MaxUndoing
    /\ pending' = pending \cup {[op |-> "undo", method |-> action[1].description,
                                  arguments |-> action[1].arguments, seq |-> FreeSlot,
                                  entry |-> Some(action[1].seq), undo |-> action[1].undo]}
    /\ lastCall' = [NoCall EXCEPT !.op = "undo", !.method = action[1].description,
                       !.outcome = "suspended", !.calledUndo = Some(action[1].undo)]
    /\ interleaved' = (interleaved \/ MidMutation)
    /\ UNCHANGED <<undoLedger, undoPointer, execCount>>

\* undo(), lines 234-242, once the awaited inverse has settled.
UndoFinish ==
    \E h \in pending :
        /\ UNCHANGED rundownVars
        /\ h.op = "undo"
        /\ pending' = pending \ {h}
        /\ UNCHANGED execCount
        /\ \/ /\ undoPointer' = AfterUndo(undoPointer)
              /\ lastCall' = [NoCall EXCEPT !.op = "undo", !.method = h.method,
                                 !.outcome = "resumed", !.calledUndo = Some(h.undo)]
              /\ interleaved' = (interleaved \/ (pending' # {}))
              /\ UNCHANGED undoLedger
           \/ /\ undoLedger' = ClearLedger(undoLedger)
              /\ undoPointer' = -1
              /\ lastCall' = [NoCall EXCEPT !.op = "undo", !.method = h.method,
                                 !.outcome = "threw", !.calledUndo = Some(h.undo)]
              /\ UNCHANGED interleaved

NextAsyncUndo ==
    \/ Next
    \/ OpenRundown
    \/ RedoOpenRundown
    \/ UndoStart
    \/ UndoFinish

SpecAsyncUndo == Init /\ [][NextAsyncUndo]_vars

\* The step invokes the inverse of an entry: undo() has reached line 233.
InvokesInverse ==
    /\ lastCall'.op = "undo"
    /\ lastCall'.calledUndo # None
    /\ lastCall'.outcome \in {"returned", "suspended"} \/ (lastCall'.outcome = "threw" /\ pending' = pending)

\* An invocation of the inverse closure `undo` has not settled yet.
InFlight(undo) == \E h \in pending : h.op = "undo" /\ h.undo = undo

\* undo() moves the pointer down past an entry.
PassesEntry == undoPointer' = undoPointer - 1 /\ lastCall'.op = "undo" /\ undoLedger' = undoLedger

\* C31: a step of undo() that invokes the inverse of a ledger entry never
\* invokes an inverse of which an invocation is still in flight, and a step of
\* undo() that moves the pointer down past an entry is a step of the undo()
\* call that invoked the inverse of the entry at the pointer.
C31_InverseOncePerExecution ==
    [][/\ InvokesInverse => ~InFlight(lastCall'.calledUndo[1])
       /\ PassesEntry =>
            /\ EntryAt(undoLedger, undoPointer) # None
            /\ lastCall'.calledUndo = Some(EntryAt(undoLedger, undoPointer)[1].undo)]_vars

----------------------------------------------------------------------------
(* undo() and redo() with nothing to undo or redo.                          *)

\* The step is an undo() call made with the pointer at -1.
UndoesNothing == lastCall'.op = "undo" /\ lastCall'.method = "none" /\ undoPointer = -1

\* The step is a redo() call made with the pointer at the last entry.
RedoesNothing ==
    lastCall'.op = "redo" /\ lastCall'.method = "none" /\ undoPointer = LastIndex(undoLedger)

\* C32: a step of undo() made with the pointer at -1, and a step of redo() made
\* with the pointer at the last entry, leaves the entries of the ledger and the
\* pointer as they were.
C32_NothingToUndoIsNoOp ==
    [][(UndoesNothing \/ RedoesNothing) =>
            (undoLedger' = undoLedger /\ undoPointer' = undoPointer)]_vars

----------------------------------------------------------------------------
(* redo() of rundown commands: commands, then undo() calls, then redo()s.  *)

\* redo() re-executions per behaviour, on top of MaxCommands invocations.
MaxRedos == 2

\* action.redo(...action.arguments), line 247, run on rundown.groups gs at time
\* t for an entry of newPart (lines 663-708) or updatePart (lines 883-913): None
\* when the method throws (getGroup, getPart) or returns undefined (a locked
\* target), which makes redoResult.undo at line 248 throw; else the undo closure
\* of the new execution and the groups it leaves.
Reinvoked(action, gs, t) ==
    LET arg == action.arguments
        gi == GroupIndex(gs, arg.groupId)
        pi == IF gi = 0 THEN 0 ELSE PartIndex(gs[gi], arg.partId)
        newPart == DefaultPart(shortID(1), Some(0))
    IN CASE action.description = "newPart" ->
               IF arg.groupId = 0
               THEN Some([undo |-> [kind |-> "newPart", groupId |-> 0, partId |-> newPart.id,
                                    transparentGroupId |-> shortID(2)],
                          groups |-> Append(gs, [DefaultGroup(shortID(2)) EXCEPT
                                                    !.transparent = TRUE, !.parts = <<newPart>>])])
               ELSE IF gi = 0 \/ gs[gi].locked THEN None
               ELSE Some([undo |-> [kind |-> "newPart", groupId |-> arg.groupId,
                                    partId |-> newPart.id, transparentGroupId |-> 0],
                          groups |-> [gs EXCEPT ![gi].parts = Append(@, newPart)]])
         [] action.description = "updatePart" ->
               IF pi = 0 THEN None
               ELSE IF gs[gi].locked \/ (gs[gi].parts[pi].locked /\ arg.attribute # "locked")
               THEN None
               ELSE LET affectsPlayout == arg.attribute \in AffectsPlayout
                        updated == IF affectsPlayout THEN updateGroupPlayingParts(gs[gi], t)
                                   ELSE gs[gi]
                        assigned == [updated EXCEPT !.parts[pi][arg.attribute] = arg.value]
                    IN Some([undo |-> [kind |-> "updatePart", groupId |-> arg.groupId,
                                       partId |-> arg.partId, partPreChange |-> gs[gi].parts[pi]],
                             groups |-> [gs EXCEPT ![gi] = IF affectsPlayout
                                                           THEN _saveUpdates(assigned, t, FALSE)
                                                           ELSE assigned]])

\* redo(), lines 244-258, with the stored method re-run on the rundown
RedoCommand ==
    LET action == EntryAt(undoLedger, undoPointer + 1)
        result == IF action = None THEN None ELSE Reinvoked(action[1], groups, now)
    IN /\ execCount < MaxCommands + MaxRedos
       /\ IF result # None
          THEN /\ groups' = result[1].groups
               /\ undoLedger' = SetUndo(undoLedger, action[1].seq, result[1].undo)
               /\ undoPointer' = AfterRedo(undoPointer)
               /\ lastCall' = [NoCall EXCEPT !.op = "redo", !.method = action[1].description,
                                  !.outcome = "returned", !.result = UndoableResult,
                                  !.calledRedo = Some(<<action[1].description, action[1].arguments>>)]
          ELSE /\ undoLedger' = ClearLedger(undoLedger)
               /\ undoPointer' = -1
               /\ UNCHANGED groups
               /\ lastCall' = [NoCall EXCEPT !.op = "redo", !.outcome = "threw",
                                  !.calledRedo = IF action = None THEN None
                                                 ELSE Some(<<action[1].description,
                                                             action[1].arguments>>)]
       /\ execCount' = IF action = None THEN execCount ELSE execCount + 1
       /\ before' = [before EXCEPT !.run = NoRun]
       /\ UNCHANGED <<pending, interleaved, now, apartVars>>

\* The calls arrive as a replay: commands, then undo() calls, then redo() calls.
ReplayNewPart ==
    /\ lastCall.op \in {"none", "handler"}
    /\ NewPart

ReplayUpdatePart ==
    /\ lastCall.op \in {"none", "handler"}
    /\ UpdatePart

ReplayUndo ==
    /\ lastCall.op \in {"handler", "undo"}
    /\ lastCall.outcome = "returned"
    /\ UndoCommand

ReplayRedo ==
    /\ lastCall.op \in {"undo", "redo"}
    /\ lastCall.outcome = "returned"
    /\ RedoCommand

NextReplay ==
    \/ ReplayNewPart
    \/ ReplayUpdatePart
    \/ ReplayUndo
    \/ ReplayRedo

SpecReplay == InitRundown /\ [][NextReplay]_vars

\* C33: in a replay, every undo() of an entry and every redo() of an entry
\* succeeds: the ledger keeps its entries and the pointer moves by one, so that
\* as many redo() calls as undo() calls bring it back to where it was.
C33_ReplayStep ==
    /\ (lastCall'.op = "undo" /\ EntryAt(undoLedger, undoPointer) # None) =>
          /\ lastCall'.outcome = "returned"
          /\ Len(undoLedger') = Len(undoLedger)
          /\ undoPointer' = undoPointer - 1
    /\ (lastCall'.op = "redo" /\ EntryAt(undoLedger, undoPointer + 1) # None) =>
          /\ lastCall'.outcome = "returned"
          /\ Len(undoLedger') = Len(undoLedger)
          /\ undoPointer' = undoPointer + 1

C33_UndoRedoReplay == [][C33_ReplayStep]_vars

----------------------------------------------------------------------------
(* updatePart with a patch of several attributes.                           *)

\* The flags of a part that a patch may hold.
PartFlags == {"loop", "disabled", "locked"}

\* arg.part: a Partial<Part> with at least one of the flags
Patches == UNION {[flags -> BOOLEAN] : flags \in (SUBSET PartFlags) \ {{}}}

\* Object.assign(part, arg.part), line 908
Assigned(part, patch) ==
    [a \in DOMAIN part |-> IF a \in DOMAIN patch THEN patch[a] ELSE part[a]]

\* has(arg.part, 'loop') || has(arg.part, 'disabled') || has(arg.part, 'duration'), line 899
PatchAffectsPlayout(patch) == DOMAIN patch \cap AffectsPlayout # {}

\* updatePart calls with a patch per behaviour.
MaxPatches == 2

\* updatePart, lines 883-925, for any patch of flags
UpdatePartPatch ==
    /\ execCount < MaxPatches
    /\ \E gi \in 1..Len(groups) : \E pi \in 1..Len(groups[gi].parts) : \E patch \in Patches :
        LET group == groups[gi]
            part == group.parts[pi]
            arg == [groupId |-> group.id, partId |-> part.id, part |-> patch]
            updated == IF PatchAffectsPlayout(patch) THEN updateGroupPlayingParts(group, now)
                       ELSE group
            assigned == [updated EXCEPT !.parts[pi] = Assigned(part, patch)]
        IN IF group.locked \/ (part.locked /\ "locked" \notin DOMAIN patch)
           THEN Command("updatePart", arg, Undefined, None, groups, <<>>)
           ELSE Command("updatePart", arg, UndoableResult,
                        [kind |-> "updatePart", groupId |-> group.id, partId |-> part.id,
                         partPreChange |-> part],
                        [groups EXCEPT ![gi] = IF PatchAffectsPlayout(patch)
                                               THEN _saveUpdates(assigned, now, FALSE)
                                               ELSE assigned],
                        updated.playingParts)

NextPatch ==
    \/ UpdatePartPatch
    \/ UndoCommand

SpecPatch == InitRundown /\ [][NextPatch]_vars

\* A part without its locked flag.
Unlockable(part) == [part EXCEPT !.locked = FALSE]

\* C34: a command invoked while a part is locked and its group is not leaves
\* every attribute of that part other than locked as it was.
C34_LockedPartStep ==
    lastCall'.op = "handler" =>
        \A gi \in 1..Len(groups) : \A pi \in 1..Len(groups[gi].parts) :
            (groups[gi].parts[pi].locked /\ ~groups[gi].locked) =>
                /\ gi <= Len(groups')
                /\ pi <= Len(groups'[gi].parts)
                /\ Unlockable(groups'[gi].parts[pi]) = Unlockable(groups[gi].parts[pi])

C34_LockedPartKeepsAttributes == [][C34_LockedPartStep]_vars

----------------------------------------------------------------------------
(* The entries of playingParts and the parts of their group.                *)

\* The ids of the parts of a group.
PartIdsOf(group) == {group.parts[i].id : i \in 1..Len(group.parts)}

\* C36: in every reachable state, each key of the playingParts of a group is
\* the id of a part that the group holds.
C36_PlayingPartsOwned ==
    \A gi \in 1..Len(groups) : Keys(groups[gi].playingParts) \subseteq PartIdsOf(groups[gi])

----------------------------------------------------------------------------
(* Playout commands between an edit and its undo.                           *)

\* The playingParts of every group, by group id.
PlayoutOf(gs) == {<<gs[i].id, gs[i].playingParts>> : i \in 1..Len(gs)}

\* C37: when playPart was executed after updateGroup and undo() then undoes that
\* updateGroup, the entries of playingParts are the same after the undo as
\* before it.
C37_UndoAfterPlayStep ==
    (/\ lastCall.op = "handler"
     /\ lastCall.method = "playPart"
     /\ lastCall'.op = "undo"
     /\ lastCall'.method = "updateGroup"
     /\ lastCall'.outcome = "returned") =>
        PlayoutOf(groups') = PlayoutOf(groups)

C37_UndoKeepsPlayout == [][C37_UndoAfterPlayStep]_vars

----------------------------------------------------------------------------
(* Edits of the timeline of a part. A timeline is kept as the number of its *)
(* objects, each one tick long and placed after the one before it.         *)

\* Timeline objects per part.
MaxObjects == 2

\* part.timeline.length; a part made by newPart has no objects
TimelineLength(part) == IF "timeline" \in DOMAIN part THEN part.timeline ELSE 0

\* The part with a timeline of n objects after postProcessPart(part), which
\* resolves the duration of the part from its timeline.
Resolved(part, n) ==
    [a \in DOMAIN part \cup {"timeline"} |->
        CASE a = "timeline" -> n
          [] a = "duration" -> Some(n)
          [] OTHER -> part[a]]

\* addResourcesToTimeline, lines 1722-1842, for one resource: the object is pushed
\* and the rundown is saved without the group (line 1820).
AddResources ==
    \E gi \in 1..Len(groups) : \E pi \in 1..Len(groups[gi].parts) :
        LET group == groups[gi]
            part == group.parts[pi]
            arg == [groupId |-> group.id, partId |-> part.id]
        IN /\ TimelineLength(part) < MaxObjects
           /\ IF group.locked \/ part.locked
              THEN Command("addResourcesToTimeline", arg, Undefined, None, groups, <<>>)
              ELSE Command("addResourcesToTimeline", arg, UndoableResult,
                           [kind |-> "addResourcesToTimeline", groupId |-> group.id,
                            partId |-> part.id],
                           [groups EXCEPT ![gi].parts[pi] = Resolved(part, TimelineLength(part) + 1)],
                           group.playingParts)

\* deleteTimelineObj, lines 1505-1542, for an object of the rundown: when the
\* timeline is left empty, stopPart (lines 496-513) runs to its end before the
\* command goes on.
DeleteTimelineObj ==
    \E gi \in 1..Len(groups) : \E pi \in 1..Len(groups[gi].parts) :
        LET group == groups[gi]
            part == group.parts[pi]
            arg == [groupId |-> group.id, partId |-> part.id]
            edited == [group EXCEPT !.parts[pi] = Resolved(part, TimelineLength(part) - 1)]
            stopped == [edited EXCEPT !.playingParts =
                           Stopped(@, IF group.oneAtATime THEN Keys(@) ELSE {part.id}, now)]
            left == IF TimelineLength(part) - 1 <= 0 THEN _saveUpdates(stopped, now, FALSE)
                    ELSE edited
        IN /\ TimelineLength(part) >= 1
           /\ IF group.locked \/ part.locked
              THEN Command("deleteTimelineObj", arg, Undefined, None, groups, <<>>)
              ELSE Command("deleteTimelineObj", arg, UndoableResult,
                           [kind |-> "deleteTimelineObj", groupId |-> group.id,
                            partId |-> part.id],
                           [groups EXCEPT ![gi] = _saveUpdates(left, now, FALSE)],
                           IF TimelineLength(part) - 1 <= 0 THEN stopped.playingParts
                           ELSE group.playingParts)

\* The undo closures of addResourcesToTimeline (lines 1823-1840),
\* deleteTimelineObj (lines 1531-1538) and toggleGroupOneAtATime (lines
\* 1933-1940), and those of ApplyUndo.
ApplyAnyUndo(undo, gs, t) ==
    LET gi == IF "groupId" \in DOMAIN undo THEN GroupIndex(gs, undo.groupId) ELSE 0
        pi == IF gi = 0 \/ "partId" \notin DOMAIN undo THEN 0 ELSE PartIndex(gs[gi], undo.partId)
    IN CASE undo.kind = "addResourcesToTimeline" ->
               IF pi = 0 THEN None
               ELSE Some([gs EXCEPT ![gi].parts[pi] =
                             Resolved(@, IF TimelineLength(@) > 0 THEN TimelineLength(@) - 1 ELSE 0)])
         [] undo.kind = "deleteTimelineObj" ->
               IF pi = 0 THEN None
               ELSE Some([gs EXCEPT ![gi] =
                             _saveUpdates([@ EXCEPT !.parts[pi] = Resolved(@, TimelineLength(@) + 1)],
                                          t, FALSE)])
         [] undo.kind = "toggleGroupOneAtATime" ->
               IF gi = 0 THEN None
               ELSE Some([gs EXCEPT ![gi] =
                             _saveUpdates([updateGroupPlayingParts(@, t) EXCEPT
                                              !.oneAtATime = undo.originalValue], t, FALSE)])
         [] OTHER -> ApplyUndo(undo, gs, t)

\* undo(), lines 230-243, with the stored undo function run on the rundown
UndoAny ==
    LET action == EntryAt(undoLedger, undoPointer)
        result == IF action = None THEN None ELSE ApplyAnyUndo(action[1].undo, groups, now)
    IN /\ IF result # None
          THEN /\ groups' = result[1]
               /\ undoPointer' = AfterUndo(undoPointer)
               /\ UNCHANGED undoLedger
               /\ lastCall' = [NoCall EXCEPT !.op = "undo", !.method = action[1].description,
                                  !.outcome = "returned", !.calledUndo = Some(action[1].seq)]
          ELSE /\ undoLedger' = ClearLedger(undoLedger)
               /\ undoPointer' = -1
               /\ UNCHANGED groups
               /\ lastCall' = [NoCall EXCEPT !.op = "undo", !.outcome = "threw"]
       /\ before' = [before EXCEPT !.run = NoRun]
       /\ UNCHANGED <<execCount, pending, interleaved, now, apartVars>>

\* A solo or parallel group of two parts with timelines of two objects and of one.
InitTimeline ==
    /\ undoLedger = <<>>
    /\ undoPointer = -1
    /\ execCount = 0
    /\ pending = {}
    /\ lastCall = NoCall
    /\ interleaved = FALSE
    /\ now = 0
    /\ before = NoObservation
    /\ Apart
    /\ \E oneAtATime \in BOOLEAN :
          groups = <<[DefaultGroup(1) EXCEPT
                         !.oneAtATime = oneAtATime,
                         !.parts = <<Resolved(DefaultPart(1, None), 2),
                                     Resolved(DefaultPart(2, None), 1)>>]>>

NextTimeline ==
    \/ PlayPart
    \/ NewPart
    \/ AddResources
    \/ DeleteTimelineObj
    \/ UndoAny
    \/ Tick

SpecTimeline == InitTimeline /\ [][NextTimeline]_vars

\* deleteTimelineObj has just removed the last object of a part.
EmptiedTimeline ==
    /\ lastCall'.op = "handler"
    /\ lastCall'.method = "deleteTimelineObj"
    /\ lastCall'.result = UndoableResult
    /\ LET gi == GroupIndex(groups, lastCall'.arguments[1].groupId)
       IN TimelineLength(groups[gi].parts[PartIndex(groups[gi], lastCall'.arguments[1].partId)]) = 1

\* C38: a deleteTimelineObj that leaves the timeline of a part empty writes
\* nothing to the playingParts entries of the other parts of the group.
C38_EmptiedStep ==
    EmptiedTimeline =>
        LET arg == lastCall'.arguments[1]
            group == groups[GroupIndex(groups, arg.groupId)]
        IN \A partId \in PartIdsOf(group) \ {arg.partId} :
              EntryOf(before'.staged, partId) = EntryOf(group.playingParts, partId)

C38_EmptyingStopsOnlyThatPart == [][C38_EmptiedStep]_vars

----------------------------------------------------------------------------
(* Commands on a whole group, and the solo invariant under all of them.    *)

\* playParts, lines 388-401: _playPart for each part in turn. The test on
\* Len(group.parts), which is never true, has the group evaluated once per part.
RECURSIVE PlayedAll(_, _, _)
PlayedAll(group, parts, t) ==
    IF parts = <<>> \/ Len(group.parts) < 0 THEN group
    ELSE PlayedAll(_playPart(group, parts[1], t), Tail(parts), t)

\* pauseParts, lines 428-444: _pausePart for each part in turn
RECURSIVE PausedAll(_, _, _)
PausedAll(group, parts, t) ==
    IF parts = <<>> \/ Len(group.parts) < 0 THEN group
    ELSE PausedAll(_pausePart(group, parts[1], None, t), Tail(parts), t)

\* group.parts.filter((p) => !p.disabled)
Enabled(group) == SelectSeq(group.parts, LAMBDA p : ~p.disabled)

\* playGroup, lines 566-589; playPart and playParts run to their end
PlayGroup ==
    \E gi \in 1..Len(groups) :
        LET group == groups[gi]
            arg == [groupId |-> group.id, partId |-> 0]
            played == IF group.oneAtATime
                      THEN IF Enabled(group) = <<>> THEN None
                           ELSE Some(_playPart(group, Enabled(group)[1], now))
                      ELSE Some(PlayedAll(group, group.parts, now))
        IN IF group.disabled \/ played = None
           THEN Command("playGroup", arg, Undefined, None, groups, <<>>)
           ELSE Command("playGroup", arg, Undefined, None,
                        [groups EXCEPT ![gi] = _saveUpdates(played[1], now, FALSE)],
                        played[1].playingParts)

\* pauseGroup, lines 590-637; pausePart and pauseParts run to their end
PauseGroup ==
    \E gi \in 1..Len(groups) :
        LET group == groups[gi]
            arg == [groupId |-> group.id, partId |-> 0]
            updated == updateGroupPlayingParts(group, now)
            playingPartIds == Keys(updated.playingParts)
            target == IF updated.playingParts # <<>>
                      THEN SelectSeq(group.parts, LAMBDA p : p.id = updated.playingParts[1].partId)
                      ELSE IF Enabled(group) = <<>> THEN <<>>
                      ELSE <<Enabled(group)[1]>>
            paused == IF group.oneAtATime
                      THEN IF target = <<>> THEN None
                           ELSE Some(_pausePart(updated, target[1], None, now))
                      ELSE Some(PausedAll(updated,
                                          IF playingPartIds = {} THEN group.parts
                                          ELSE SelectSeq(group.parts,
                                                         LAMBDA p : p.id \in playingPartIds),
                                          now))
        IN IF group.disabled
           THEN Command("pauseGroup", arg, Undefined, None, groups, <<>>)
           ELSE IF paused = None
           THEN Command("pauseGroup", arg, Undefined, None, [groups EXCEPT ![gi] = updated],
                        updated.playingParts)
           ELSE Command("pauseGroup", arg, Undefined, None,
                        [groups EXCEPT ![gi] = _saveUpdates(paused[1], now, FALSE)],
                        paused[1].playingParts)

\* toggleGroupOneAtATime, lines 1904-1944
ToggleGroupOneAtATime ==
    \E gi \in 1..Len(groups) : \E value \in BOOLEAN :
        LET group == groups[gi]
            arg == [groupId |-> group.id, partId |-> 0, value |-> value]
            updated == [updateGroupPlayingParts(group, now) EXCEPT !.oneAtATime = value]
            pruned == IF value /\ Len(updated.playingParts) > 1
                      THEN [updated EXCEPT !.playingParts = <<@[1]>>]
                      ELSE updated
        IN IF group.locked
           THEN Command("toggleGroupOneAtATime", arg, Undefined, None, groups, <<>>)
           ELSE Command("toggleGroupOneAtATime", arg, UndoableResult,
                        [kind |-> "toggleGroupOneAtATime", groupId |-> group.id,
                         originalValue |-> group.oneAtATime],
                        [groups EXCEPT ![gi] = _saveUpdates(pruned, now, FALSE)],
                        pruned.playingParts)

NextSolo ==
    \/ PlayPart
    \/ PlayGroup
    \/ PauseGroup
    \/ ToggleGroupOneAtATime
    \/ UpdateGroup
    \/ MoveParts
    \/ UndoAny

SpecSolo == InitMove /\ [][NextSolo]_vars

\* The commands of SpecSolo arrive one after the other at the time of InitMove.

----------------------------------------------------------------------------
(* The enable of the objects of a part that is not paused.                  *)

\* C39: for a part in a section that is not paused, the part object
\* in the returned timeline has enable.duration equal to the resolved duration
\* of the part, and repeating equal to it when the part loops, and each object
\* copied from the timeline of the part has the enable.duration it had there.
C39_PlayingEnableKeepsDuration ==
    ReturnedTimeline =>
        LET made == PartObjectsOf(materialized.returned[1][1])
            paused == PreparedPauses(materialized.prepared)
            parts == PreparedParts(materialized.prepared)
        IN \A j \in 1..Len(made) :
              ~paused[j] =>
                 /\ made[j].enable.duration = parts[j].part.duration
                 /\ parts[j].part.loop => made[j].enable.repeating = parts[j].part.duration
                 /\ \A i \in 1..Len(made[j].children) :
                       made[j].children[i].enable.duration =
                          parts[j].part.timeline[i].enable.duration


(***************************************************************************)
(* Every marked change is broadcast.                                       *)
(*                                                                         *)
(* setTimeout(..., 5) runs its callback once the 5 ms have passed: a       *)
(* pending timer fires, which is weak fairness of TimeoutCallback.  No     *)
(* call of the bridges or of the user has to arrive.                       *)
(***************************************************************************)
SpecSessionFair == InitSession /\ [][NextSession]_vars /\ WF_vars(TimeoutCallback)

\* a change is waiting for its event
ChangePending ==
    \/ session.resourcesHasChanged # <<>>
    \/ session.bridgeStatusesHasChanged # <<>>
    \/ session.peripheralsHasChanged # <<>>
    \/ session.allTriggersHasChanged # <<>>
    \/ session.activeTriggersHasChanged

\* C40: whenever an update or reset call has marked a change of the
\* resources, bridge statuses, peripherals, known triggers or active triggers,
\* the events of the marked changes are eventually emitted, given only that a
\* pending timer fires: no further update call is required.
C40_ChangeEventuallyEmitted == ChangePending ~> ~ChangePending

====
